---- MODULE Spec2Model ----
(***************************************************************************)
(* A model of the discovery and resolution engine of andreclaro/ssm:       *)
(* the instance repository (internal/storage), and the fan-out scanner     *)
(* DiscoverInstances (internal/service/discovery.go).                      *)
(*                                                                         *)
(* Strings the code inspects character by character (instance names, for   *)
(* indexOfDot; instance ids, for the "mi-" prefix test; tag values, one of *)
(* which becomes the name) are sequences of one-character strings; the     *)
(* zero value "" is << >>.  Other strings are                              *)
(* TLA+ strings, "" being Go's zero value.  Time is a counter of clock     *)
(* ticks, read by the code through time.Now().                             *)
(***************************************************************************)
EXTENDS Integers, Sequences, FiniteSets, TLC

VARIABLES
    instances,  \* table "instances": a set of rows (storage.Instance)
    tags,       \* table "tags": a bag of rows, [row -> copies] (storage.Tag)
    nextID,     \* next autoincrement primary key of table "instances"
    now,        \* the wall clock, as time.Now() reads it
    last        \* the last repository call: [op, arg, err, res, fault]

VARIABLES
    regionRows, \* table "regions": a set of rows (storage.Region)
    profileRows,\* table "profiles": a set of rows (storage.Profile)
    ceiling,    \* cfg.AWS.MaxConcurrentSessions, the size of ds.semaphore
    ctxDone,    \* whether ctx, the caller's context, is cancelled
    mpc,        \* where the one DiscoverInstances call of the service is
    upc,        \* where the goroutine of each (profile, region) unit is
    outcome,    \* what happened to each unit: [err, fault]
    clients,    \* ClientManager.clients: "profile:region" -> AccountID
    cur,        \* semaphore.Weighted: the weight held
    waiters,    \* semaphore.Weighted: the queue of blocked Acquire calls
    errorChan,  \* the buffered channel of unit errors
    chanCap,    \* its capacity, len(profiles)*len(regions)
    errors,     \* the errors DiscoverInstances collected from errorChan
    result,     \* what DiscoverInstances returned, "none" while it runs
    evictRuns   \* cleanupStaleInstances calls of the current call

VARIABLES
    firstRun    \* history: what the first of two calls left, << >> before

VARIABLES
    cm          \* the GetClient calls in progress on the ClientManager

storeVars == <<instances, tags, nextID, now, last>>

discVars == <<regionRows, profileRows, ceiling, ctxDone, mpc, upc, outcome, clients, cur,
              waiters, errorChan, chanCap, errors, result, evictRuns>>

vars == <<instances, tags, nextID, now, last, regionRows, profileRows, ceiling, ctxDone,
          mpc, upc, outcome, clients, cur, waiters, errorChan, chanCap,
          errors, result, evictRuns, firstRun, cm>>

(***************************************************************************)
(* Bounds of the model.                                                    *)
(***************************************************************************)
MaxTime == 1        \* the clock stops advancing at MaxTime
MaxBatch == 2       \* longest batch handed to SaveOrUpdateBatch
MaxCeiling == 2     \* largest configured max_concurrent_sessions
MaxUnits == 2       \* most (profile, region) units of one DiscoverInstances call
MaxID == 3          \* no upsert starts once the key counter has passed MaxID
MaxCallers == 3     \* goroutines that call GetClient on one ClientManager

\* The goroutines that call GetClient.
Callers == 1..MaxCallers

\* NewClientManager: an empty map and an unlocked mutex; nobody has called.
\* pc, pair, got and slow are per caller: where its call is, the pair it
\* asked for, what it got (0 nothing yet, -1 an error, else the handle, an
\* index of made) and whether it went past the first check.  made is every
\* Client constructed, slot the pointer the map holds under each key.
NoCalls ==
    [pc |-> [c \in Callers |-> "idle"],
     pair |-> [c \in Callers |-> << >>],
     got |-> [c \in Callers |-> 0],
     slow |-> [c \in Callers |-> FALSE],
     readers |-> {},
     writer |-> 0,
     made |-> << >>,
     slot |-> << >>]

(***************************************************************************)
(* The store: tables and the helpers the repository's queries use.         *)
(***************************************************************************)
NoName == << >>

Max(S) == CHOOSE x \in S : \A y \in S : y <= x

\* The database handle with its tables, as one value a transaction works on.
DB == [instances |-> instances, tags |-> tags, nextID |-> nextID]

DeleteTagsNothing(tg, iid) == tg

\* tx.Where("instance_id = ?", id).Delete(&Tag{}): every tag row of the id goes.
DeleteTags(tg, iid) ==
    [r \in {x \in DOMAIN tg : x.instance_id # iid} |-> tg[r]]

\* The rows tx.CreateInBatches(newTags, 100) inserts: one per element of the
\* slice, duplicates included, each with tag.InstanceID = instance.InstanceID.
NewTagRow(iid, t) == [instance_id |-> iid, key |-> t.key, value |-> t.value]

CreateInBatches(tg, iid, ts) ==
    LET rows == {NewTagRow(iid, ts[i]) : i \in 1..Len(ts)}
        copies(r) == Cardinality({i \in 1..Len(ts) : NewTagRow(iid, ts[i]) = r})
    IN  [r \in (DOMAIN tg) \cup rows |->
            (IF r \in DOMAIN tg THEN tg[r] ELSE 0) + copies(r)]

\* The tag rows of one instance id, as Preload("Tags") joins them.
TagsOf(tg, iid) ==
    [r \in {x \in DOMAIN tg : x.instance_id = iid} |-> tg[r]]

WhereNothing(r, inst) == FALSE

\* tx.Where(Instance{InstanceID, Region, Profile}): gorm builds the condition
\* from the non-zero fields of the struct only.
WhereKey(r, inst) ==
    /\ inst.instance_id # << >> => r.instance_id = inst.instance_id
    /\ inst.region # "" => r.region = inst.region
    /\ inst.profile # "" => r.profile = inst.profile

\* The row with the smallest primary key of a non-empty set of rows.
FirstByID(rows) == CHOOSE r \in rows : \A x \in rows : r.id <= x.id

AssignRowKeepsLastSeen(r, inst, t0, t) ==
    [r EXCEPT !.name = IF inst.name # NoName THEN inst.name ELSE @,
              !.account_id = IF inst.account_id # "" THEN inst.account_id ELSE @,
              !.state = IF inst.state # "" THEN inst.state ELSE @,
              !.platform = IF inst.platform # "" THEN inst.platform ELSE @,
              !.updated_at = t]

\* Assign(Instance{Name, AccountID, State, Platform, LastSeen}) on a row that
\* exists: gorm turns the struct into a column map of its non-zero fields and
\* runs Updates with it, which also stamps updated_at.
AssignRow(r, inst, t0, t) ==
    [r EXCEPT !.name = IF inst.name # NoName THEN inst.name ELSE @,
              !.account_id = IF inst.account_id # "" THEN inst.account_id ELSE @,
              !.state = IF inst.state # "" THEN inst.state ELSE @,
              !.platform = IF inst.platform # "" THEN inst.platform ELSE @,
              !.last_seen = t0,
              !.updated_at = t]

\* FirstOrCreate on no match: the struct is inserted as given (the conditions
\* and the assigned fields are its own); BeforeCreate stamps LastSeen with
\* time.Now() and gorm stamps updated_at.
CreateRow(id, inst, t) ==
    [id |-> id, instance_id |-> inst.instance_id, name |-> inst.name,
     region |-> inst.region, profile |-> inst.profile,
     account_id |-> inst.account_id, state |-> inst.state,
     platform |-> inst.platform, last_seen |-> t, updated_at |-> t]

\* tx.Where(key).Assign(fields).FirstOrCreate(instance)
FirstOrCreate(db, inst, t0, t) ==
    LET found == {r \in db.instances : WhereKey(r, inst)}
    IN  IF found = {}
        THEN [db EXCEPT !.instances = @ \cup {CreateRow(db.nextID, inst, t)},
                        !.nextID = @ + 1]
        ELSE LET r == FirstByID(found)
             IN  [db EXCEPT !.instances =
                        (@ \ {r}) \cup {AssignRow(r, inst, t0, t)}]

ReplaceTagsAlways(db, inst) ==
    [db EXCEPT !.tags =
        CreateInBatches(DeleteTags(@, inst.instance_id),
                        inst.instance_id, inst.tags)]

\* "Only replace tags if provided": delete the id's tags, insert the new ones.
ReplaceTags(db, inst) ==
    IF Len(inst.tags) > 0
    THEN [db EXCEPT !.tags =
            CreateInBatches(DeleteTags(@, inst.instance_id),
                            inst.instance_id, inst.tags)]
    ELSE db

\* One iteration of the loop of SaveOrUpdateBatch (the body of SaveOrUpdate).
UpsertRecord(db, inst, t0, t) ==
    ReplaceTags(FirstOrCreate(db, inst, t0, t), inst)

\* The loop of SaveOrUpdateBatch over instances[i..]: `now` was read once, as
\* t0, before the loop; the statements of the loop run when the clock reads t1.
\* (next ranges over a singleton, so that each iteration works on the value
\* of the store the previous one left.)
RECURSIVE UpsertFrom(_, _, _, _, _)
UpsertFrom(db, batch, i, t0, t1) ==
    IF i > Len(batch) THEN db
    ELSE CHOOSE after \in {UpsertFrom(next, batch, i + 1, t0, t1) :
                              next \in {UpsertRecord(db, batch[i], t0, t1)}} :
            TRUE

UpsertBatch(db, batch, t0, t1) == UpsertFrom(db, batch, 1, t0, t1)

\* The clock readings a handler that starts at t0 can end with.
ClockAfter(t0) == {t \in {t0, t0 + 1} : t <= MaxTime}

(***************************************************************************)
(* Repository operations, as actions on the store.  A failing statement    *)
(* makes DB.Transaction roll back: the tables are as before the call.      *)
(***************************************************************************)
Commit(db, t) ==
    /\ instances' = db.instances
    /\ tags' = db.tags
    /\ nextID' = db.nextID
    /\ now' = t

RollbackLosesTags == UNCHANGED <<instances, nextID, now>> /\ tags' = << >>

Rollback == UNCHANGED <<instances, tags, nextID, now>>

\* What the last call returned (err, res), and whether a statement it issued
\* failed in the store (fault).
Called(op, arg, err, res, fault) ==
    last' = [op |-> op, arg |-> arg, err |-> err, res |-> res,
             fault |-> fault]

SaveOrUpdate(inst) ==
    \/ \E t1 \in ClockAfter(now) :
          /\ Commit(UpsertRecord(DB, inst, now, t1), t1)
          /\ Called("SaveOrUpdate", << >>, FALSE, << >>, FALSE)
    \/ /\ Rollback
       /\ Called("SaveOrUpdate", << >>, TRUE, << >>, TRUE)

SaveOrUpdateBatch(batch) ==
    IF Len(batch) = 0
    THEN /\ Rollback
         /\ Called("SaveOrUpdateBatch", << >>, FALSE, << >>, FALSE)
    ELSE \/ \E t1 \in ClockAfter(now) :
              /\ Commit(UpsertBatch(DB, batch, now, t1), t1)
              /\ Called("SaveOrUpdateBatch", << >>, FALSE, << >>, FALSE)
         \/ /\ Rollback
            /\ Called("SaveOrUpdateBatch", << >>, TRUE, << >>, TRUE)

Tick ==
    /\ now < MaxTime
    /\ now' = now + 1
    /\ UNCHANGED <<instances, tags, nextID, last>>

StoreInit ==
    /\ instances = {}
    /\ tags = << >>
    /\ nextID = 1
    /\ now = 0
    /\ last = [op |-> "none", arg |-> << >>, err |-> FALSE, res |-> << >>,
               fault |-> FALSE]

(***************************************************************************)
(* SpecUpsert: the upsert operations on records drawn from UpsertPool.     *)
(***************************************************************************)
Seq1(x) == <<x>>

IdA == <<"i", "-", "a">>
IdB == <<"m", "i", "-", "b">>

Tag(k, v) == [key |-> k, value |-> v]

Inst(iid, region, profile, name, account, state, platform, ts) ==
    [instance_id |-> iid, name |-> name, region |-> region,
     profile |-> profile, account_id |-> account, state |-> state,
     platform |-> platform, tags |-> ts]

Web == <<"w">>
Db == <<"d">>
Test == <<"t">>
Prod == <<"p">>

UpsertPool ==
    { Inst(IdA, "r1", "p1", Web, "111", "running", "Linux",
           <<Tag("Name", Web), Tag("Env", Test)>>),
      Inst(IdA, "r1", "p1", NoName, "111", "Online", "Linux", << >>),
      Inst(IdA, "r2", "p1", Web, "111", "running", "Linux",
           <<Tag("Env", Prod), Tag("Env", Prod)>>) }

RECURSIVE SeqsUpTo(_, _)
SeqsUpTo(S, n) ==
    IF n = 0 THEN {<< >>}
    ELSE LET shorter == SeqsUpTo(S, n - 1)
         IN  shorter \cup {Append(s, x) : s \in shorter, x \in S}

UpsertBatches == SeqsUpTo(UpsertPool, MaxBatch)


(***************************************************************************)
(* Resolution: FindByName and the ordering of its query.                   *)
(***************************************************************************)
\* SQLite's lower(), on the state strings of the model.
Lower(s) ==
    CASE s = "Online" -> "online"
      [] s = "RUNNING" -> "running"
      [] s = "Running" -> "running"
      [] s = "ConnectionLost" -> "connectionlost"
      [] OTHER -> s

RankCaseSensitive(state) ==
    IF state = "Online" THEN 0 ELSE IF state = "running" THEN 1 ELSE 2

\* CASE WHEN state = 'Online' THEN 0 WHEN lower(state) = 'running' THEN 1
\* ELSE 2 END
Rank(state) ==
    IF state = "Online" THEN 0 ELSE IF Lower(state) = "running" THEN 1 ELSE 2

OrderedBeforeOldestFirst(a, b) ==
    \/ Rank(a.state) < Rank(b.state)
    \/ /\ Rank(a.state) = Rank(b.state)
       /\ \/ a.last_seen < b.last_seen
          \/ /\ a.last_seen = b.last_seen
             /\ \/ a.updated_at < b.updated_at
                \/ a.updated_at = b.updated_at /\ a.id < b.id

\* ORDER BY <rank> ASC, last_seen DESC, updated_at DESC, and the primary key
\* ascending, which First() appends to the order.
OrderedBefore(a, b) ==
    \/ Rank(a.state) < Rank(b.state)
    \/ /\ Rank(a.state) = Rank(b.state)
       /\ \/ a.last_seen > b.last_seen
          \/ /\ a.last_seen = b.last_seen
             /\ \/ a.updated_at > b.updated_at
                \/ a.updated_at = b.updated_at /\ a.id < b.id

WhereAnyName(tbl, name) == tbl

\* Where("name = ?", name)
WhereName(tbl, name) == {r \in tbl : r.name = name}

\* Order(orderExpr).First(&instance) over a non-empty set of rows.
First(rows) ==
    CHOOSE r \in rows : \A x \in rows \ {r} : OrderedBefore(r, x)

\* indexOfDot: the index (from 0) of the first '.' of s, or -1.
IndexOfDot(s) ==
    IF \E i \in 1..Len(s) : s[i] = "."
    THEN (CHOOSE i \in 1..Len(s) :
             s[i] = "." /\ \A j \in 1..(i - 1) : s[j] # ".") - 1
    ELSE -1

HasFallbackAnyDot(name) == IndexOfDot(name) >= 0

\* if idx := indexOfDot(name); idx > 0
HasFallback(name) == IndexOfDot(name) > 0

\* name[:idx]
Base(name) == SubSeq(name, 1, IndexOfDot(name))

None == << >>
Some(tg, r) == <<[row |-> r, tags |-> TagsOf(tg, r.instance_id)]>>

\* What FindByName returns, [err, res], and whether a query it issued failed
\* in the store (fault).  fail1 and fail2 tell whether the first and the
\* second query end in an error other than ErrRecordNotFound.
FindByNameResult(tbl, tg, name, fail1, fail2) ==
    IF fail1 THEN [err |-> TRUE, res |-> None, fault |-> TRUE]
    ELSE IF WhereName(tbl, name) # {}
    THEN [err |-> FALSE, res |-> Some(tg, First(WhereName(tbl, name))),
          fault |-> FALSE]
    ELSE IF ~HasFallback(name)
    THEN [err |-> FALSE, res |-> None, fault |-> FALSE]
    ELSE IF ~fail2 /\ WhereName(tbl, Base(name)) # {}
    THEN [err |-> FALSE, res |-> Some(tg, First(WhereName(tbl, Base(name)))),
          fault |-> FALSE]
    ELSE [err |-> FALSE, res |-> None, fault |-> fail2]

FindByNameDeleting(name) ==
    /\ \E fail1, fail2 \in BOOLEAN :
          LET out == FindByNameResult(instances, tags, name, fail1, fail2)
          IN  Called("FindByName", name, out.err, out.res, out.fault)
    /\ instances' = instances \ WhereName(instances, name)
    /\ UNCHANGED <<tags, nextID, now>>

FindByName(name) ==
    /\ \E fail1, fail2 \in BOOLEAN :
          LET out == FindByNameResult(instances, tags, name, fail1, fail2)
          IN  Called("FindByName", name, out.err, out.res, out.fault)
    /\ UNCHANGED <<instances, tags, nextID, now>>

(***************************************************************************)
(* SpecResolve: FindByName on stores built by upserts of ResolvePool.      *)
(***************************************************************************)
DbX == <<"d", ".", "x">>
DbY == <<"d", ".", "y">>
DotX == <<".", "x">>

ResolvePool ==
    { Inst(IdA, "r1", "p1", Db, "111", "Online", "Linux", << >>),
      Inst(IdA, "r1", "p1", NoName, "111", "ConnectionLost", "Linux", << >>),
      Inst(IdA, "r2", "p1", Db, "111", "running", "Linux", << >>),
      Inst(IdA, "r2", "p1", Db, "111", "RUNNING", "Linux", << >>),
      Inst(IdB, "r1", "p1", Db, "111", "ConnectionLost", "Linux", << >>),
      Inst(IdB, "r1", "p1", DbX, "111", "online", "Linux", << >>) }

\* The stores FindByName is run on are built one record at a time.
ResolveBatches == {<< >>} \cup {Seq1(x) : x \in ResolvePool}

QueryNames == {Db, DbX, DbY, DotX}


(***************************************************************************)
(* Discovery.  The remote sources: what EC2 DescribeInstances and SSM      *)
(* DescribeInstanceInformation answer for each (profile, region).  A       *)
(* pointer field is a sequence: << >> for nil, <<v>> for a value.          *)
(***************************************************************************)
Nil == << >>

Ptr(v) == <<v>>

IdC == <<"i", "-", "c">>

EC2Tag(k, v) == [Key |-> k, Value |-> v]

EC2Instance(id, state, platform, ts) ==
    [InstanceId |-> Ptr(id), State |-> state, PlatformDetails |-> platform,
     Tags |-> ts]

InstanceInformation(id, name, computer, ping, platform) ==
    [InstanceId |-> id, Name |-> name, ComputerName |-> computer,
     PingStatus |-> ping, PlatformName |-> platform]

EC2Of(profile, region) ==
    CASE profile = "p1" /\ region = "r1" ->
           <<EC2Instance(IdA, "running", Ptr("Linux"),
                         <<EC2Tag(Ptr("Name"), Ptr(Web)),
                           EC2Tag(Ptr("Env"), Nil)>>)>>
      [] profile = "p2" /\ region = "r1" ->
           <<EC2Instance(IdC, "stopped", Nil, << >>),
             EC2Instance(IdC, "running", Nil, << >>)>>
      [] profile = "p1" /\ region = "r2" ->
           <<EC2Instance(IdC, "running", Ptr("Linux"),
                         <<EC2Tag(Ptr("Env"), Ptr(Prod))>>)>>
      [] OTHER -> << >>

SSMOf(profile, region) ==
    CASE profile = "p1" /\ region = "r1" ->
           <<InstanceInformation(Ptr(IdA), Nil, Ptr(Web), "Online",
                                 Ptr("Linux")),
             InstanceInformation(Nil, Nil, Nil, "Inactive", Nil),
             InstanceInformation(Ptr(IdC), Nil, Ptr(Db), "Online", Nil),
             InstanceInformation(Ptr(IdB), Ptr(NoName), Ptr(Db),
                                 "ConnectionLost", Ptr("Linux"))>>
      [] profile = "p3" /\ region = "r1" ->
           <<InstanceInformation(Ptr(IdB), Ptr(Db), Nil, "Online", Nil)>>
      [] OTHER -> << >>

\* The account sts:GetCallerIdentity reports for a profile; createClient
\* falls back to "unknown" when that call fails.
AccountIDs(profile) ==
    IF profile = "p1" THEN {"111", "unknown"} ELSE {"222"}

(***************************************************************************)
(* Conversion of the remote shapes into storage.Instance.                  *)
(***************************************************************************)
HasKeyAndValue(t) == Len(t.Key) = 1 /\ Len(t.Value) = 1

IsNameTag(t) == t.Key[1] = "Name"

ConvertEC2Instance(ec2Instance, region, profile, accountID) ==
    LET kept == SelectSeq(ec2Instance.Tags, HasKeyAndValue)
        named == SelectSeq(kept, IsNameTag)
    IN  Inst(ec2Instance.InstanceId[1], region, profile,
             IF Len(named) = 0 THEN NoName ELSE named[Len(named)].Value[1],
             accountID, ec2Instance.State,
             IF Len(ec2Instance.PlatformDetails) = 1
             THEN ec2Instance.PlatformDetails[1] ELSE "",
             [i \in 1..Len(kept) |-> Tag(kept[i].Key[1], kept[i].Value[1])])

ConvertSSMManagedInstance(info, region, profile, accountID) ==
    Inst(info.InstanceId[1], region, profile,
         IF Len(info.Name) = 1 /\ info.Name[1] # NoName THEN info.Name[1]
         ELSE IF Len(info.ComputerName) = 1 THEN info.ComputerName[1]
         ELSE NoName,
         accountID, info.PingStatus,
         IF Len(info.PlatformName) = 1 THEN info.PlatformName[1] ELSE "",
         << >>)

IsManagedAnyID(info) == Len(info.InstanceId) = 1

\* The mi-* filter of the SSM listing.
IsManaged(info) ==
    /\ Len(info.InstanceId) = 1
    /\ Len(info.InstanceId[1]) >= 3
    /\ SubSeq(info.InstanceId[1], 1, 3) = <<"m", "i", "-">>

EC2Batch(profile, region, accountID) ==
    LET found == EC2Of(profile, region)
    IN  [i \in 1..Len(found) |->
            ConvertEC2Instance(found[i], region, profile, accountID)]

SSMBatch(profile, region, accountID) ==
    LET kept == SelectSeq(SSMOf(profile, region), IsManaged)
    IN  [i \in 1..Len(kept) |->
            ConvertSSMManagedInstance(kept[i], region, profile, accountID)]

(***************************************************************************)
(* The admission gate, golang.org/x/sync/semaphore.Weighted with every     *)
(* waiter asking for weight 1.                                             *)
(***************************************************************************)
CanAcquireOffByOne(size, c, w) == size - c >= 0 /\ Len(w) = 0

CanAcquire(size, c, w) == size - c >= 1 /\ Len(w) = 0

\* notifyWaiters: grant the waiters at the front of the queue while weight
\* is left; ready is the set of waiters whose Acquire is unblocked.
RECURSIVE NotifyWaiters(_, _, _)
NotifyWaiters(size, c, w) ==
    IF Len(w) = 0 \/ size - c < 1
    THEN [cur |-> c, waiters |-> w, ready |-> {}]
    ELSE LET rest == NotifyWaiters(size, c + 1, Tail(w))
         IN  [rest EXCEPT !.ready = @ \cup {Head(w)}]

ReleaseKeepsSlot(size, c, w) == NotifyWaiters(size, c, w)

ReleaseWithoutNotify(size, c, w) ==
    [cur |-> c - 1, waiters |-> w, ready |-> {}]

Release(size, c, w) == NotifyWaiters(size, c - 1, w)

Remove(w, u) == SelectSeq(w, LAMBDA x : x # u)

Range(seq) == {seq[i] : i \in DOMAIN seq}

\* What a cancelled waiter does to the gate: it leaves the queue, and wakes
\* the next waiters if it was at the front and weight is left.
Abandon(size, c, w, u) ==
    IF u \notin Range(w) THEN [cur |-> c, waiters |-> w, ready |-> {}]
    ELSE IF w[1] = u /\ size > c THEN NotifyWaiters(size, c, Remove(w, u))
    ELSE [cur |-> c, waiters |-> Remove(w, u), ready |-> {}]

\* The gate after g, with the unblocked waiters marked granted and unit u
\* moved to pc.
Gate(g, u, pc) ==
    /\ cur' = g.cur
    /\ waiters' = g.waiters
    /\ upc' = [v \in DOMAIN upc |->
                  IF v = u THEN pc
                  ELSE IF v \in g.ready THEN "granted" ELSE upc[v]]

(***************************************************************************)
(* The error channel.                                                      *)
(***************************************************************************)
SendNothing(ch, msg) == ch

Send(ch, msg) == Append(ch, msg)

\* Unit u records an error: errorChan <- err.  The send blocks while the
\* buffer is full.
Fail(u, kind) ==
    /\ Len(errorChan) < chanCap
    /\ errorChan' = Send(errorChan, [unit |-> u, kind |-> kind])
    /\ outcome' = [outcome EXCEPT ![u].err = kind]

(***************************************************************************)
(* The goroutine of one (profile, region) unit.                            *)
(***************************************************************************)
Key(u) == <<u[1], ":", u[2]>>

\* The (profile, region) pairs DiscoverInstances schedules.
Units(profiles, regions) == Range(profiles) \X regions

DoneNever(cancelled) == FALSE

\* Whether the context the goroutine hands to Acquire, the caller's ctx, is
\* done.
Done(cancelled) == cancelled

\* semaphore.Acquire(ctx, 1) is called.  It tests the context first, under
\* the semaphore's lock: with the context done it returns ctx.Err() and
\* leaves the gate as it is, even when a slot is free.  Otherwise it takes a
\* free slot at once if nobody is queued, or queues up.  A request larger
\* than the gate is never queued: it waits for the context alone.
Acquire(u) ==
    /\ upc[u] = "start"
    /\ IF Done(ctxDone)
       THEN /\ Fail(u, "acquire")
            /\ Gate([cur |-> cur, waiters |-> waiters, ready |-> {}],
                    u, "done")
       ELSE \/ /\ CanAcquire(ceiling, cur, waiters)
               /\ Gate([cur |-> cur + 1, waiters |-> waiters, ready |-> {}],
                       u, "running")
               /\ UNCHANGED <<errorChan, outcome>>
            \/ /\ ~CanAcquire(ceiling, cur, waiters)
               /\ Gate([cur |-> cur,
                        waiters |-> IF 1 > ceiling THEN waiters
                                    ELSE Append(waiters, u),
                        ready |-> {}], u, "waiting")
               /\ UNCHANGED <<errorChan, outcome>>
    /\ UNCHANGED <<storeVars, regionRows, profileRows, ceiling, ctxDone, mpc,
                   clients, chanCap, errors, result, evictRuns>>

\* A queued Acquire notices the cancelled context and gives up.
AcquireCancelled(u) ==
    /\ upc[u] = "waiting"
    /\ Done(ctxDone)
    /\ Fail(u, "acquire")
    /\ Gate(Abandon(ceiling, cur, waiters, u), u, "done")
    /\ UNCHANGED <<storeVars, regionRows, profileRows, ceiling, ctxDone, mpc,
                   clients, chanCap, errors, result, evictRuns>>

\* A queued Acquire that was granted a slot resumes.  If the context is
\* done by then, Acquire gives the slot back and returns ctx.Err(),
\* whichever of the two channels its select picked.
AcquireGranted(u) ==
    /\ upc[u] = "granted"
    /\ IF Done(ctxDone)
       THEN /\ Fail(u, "acquire")
            /\ Gate(Release(ceiling, cur, waiters), u, "done")
       ELSE /\ Gate([cur |-> cur, waiters |-> waiters, ready |-> {}],
                    u, "running")
            /\ UNCHANGED <<errorChan, outcome>>
    /\ UNCHANGED <<storeVars, regionRows, profileRows, ceiling, ctxDone, mpc,
                   clients, chanCap, errors, result, evictRuns>>

\* The unit's write of a batch: a store failure is logged and the unit goes
\* on; fault remembers it.
SaveLogged(u, batch, err) ==
    /\ SaveOrUpdateBatch(batch)
    /\ outcome' = [outcome EXCEPT ![u] = [err |-> err,
                                          fault |-> @.fault \/ last'.fault]]

\* discoverInstancesForProfileRegion up to the EC2 write: GetClient (cached,
\* or created and cached), describeInstances, SaveOrUpdateBatch.
DiscoverEC2(u) ==
    /\ upc[u] = "running"
    /\ \/ /\ Key(u) \notin DOMAIN clients
          /\ Fail(u, "client")
          /\ upc' = [upc EXCEPT ![u] = "releasing"]
          /\ UNCHANGED <<storeVars, clients>>
       \/ \E accountID \in IF Key(u) \in DOMAIN clients
                           THEN {clients[Key(u)]} ELSE AccountIDs(u[1]) :
             /\ clients' = [k \in DOMAIN clients \cup {Key(u)} |->
                               IF k = Key(u) THEN accountID ELSE clients[k]]
             /\ \/ /\ Fail(u, "describe")
                   /\ upc' = [upc EXCEPT ![u] = "releasing"]
                   /\ UNCHANGED storeVars
                \/ /\ SaveLogged(u, EC2Batch(u[1], u[2], accountID), "none")
                   /\ upc' = [upc EXCEPT ![u] = "ec2saved"]
                   /\ UNCHANGED errorChan
    /\ UNCHANGED <<regionRows, profileRows, ceiling, ctxDone, mpc, cur, waiters,
                   chanCap, errors, result, evictRuns>>

\* The rest of discoverInstancesForProfileRegion: the SSM listing, the mi-*
\* filter, and the second SaveOrUpdateBatch if anything is left.
DiscoverSSM(u) ==
    /\ upc[u] = "ec2saved"
    /\ \/ /\ Fail(u, "ssm")
          /\ UNCHANGED storeVars
       \/ LET ssmBatch == SSMBatch(u[1], u[2], clients[Key(u)])
          IN  IF Len(ssmBatch) > 0
              THEN /\ SaveLogged(u, ssmBatch, "ok")
                   /\ UNCHANGED errorChan
              ELSE /\ outcome' = [outcome EXCEPT ![u].err = "ok"]
                   /\ UNCHANGED <<storeVars, errorChan>>
    /\ upc' = [upc EXCEPT ![u] = "releasing"]
    /\ UNCHANGED <<regionRows, profileRows, ceiling, ctxDone, mpc, clients, cur,
                   waiters, chanCap, errors, result, evictRuns>>

\* The deferred calls of a unit that held a slot: semaphore.Release(1), then
\* wg.Done().
Finish(u) ==
    /\ upc[u] = "releasing"
    /\ Gate(Release(ceiling, cur, waiters), u, "done")
    /\ UNCHANGED <<storeVars, regionRows, profileRows, ceiling, ctxDone, mpc,
                   outcome, clients, errorChan, chanCap, errors, result,
                   evictRuns>>

(***************************************************************************)
(* DiscoverInstances itself.                                               *)
(***************************************************************************)
DefaultCeiling == 5

ProfileLists == {<< >>, <<"p1">>, <<"p1", "p2">>, <<"p1", "p2", "p3">>}

RegionLists == {<< >>, <<"r1">>, <<"r1", "r2">>}

Region(name, enabled) == [region |-> name, enabled |-> enabled]

Profile(name, enabled) == [profile |-> name, enabled |-> enabled]

GetRegionsEnabledOrNot == {r.region : r \in regionRows}

\* GetEnabledRegions, when the query succeeds.
GetEnabledRegions == {r.region : r \in {x \in regionRows : x.enabled}}

\* time.ParseDuration on the TTL settings tried, in clock ticks of one hour;
\* Go has no unit "d".
TTLSettings == {"24h", "0s", "1d"}

ParseDuration(s) ==
    CASE s = "24h" -> [err |-> FALSE, d |-> 24]
      [] s = "0s" -> [err |-> FALSE, d |-> 0]
      [] OTHER -> [err |-> TRUE, d |-> 0]

StaleOrAtCutoff(rows, cutoff) == {r \in rows : r.last_seen <= cutoff}

\* WHERE last_seen < cutoff.
Stale(rows, cutoff) == {r \in rows : r.last_seen < cutoff}

\* DeleteStale: one DELETE on table "instances"; res is what it deleted.
DeleteStale(olderThan) ==
    LET cutoff == now - olderThan
        stale == Stale(instances, cutoff)
    IN  \/ /\ instances' = instances \ stale
           /\ Called("DeleteStale", olderThan, FALSE, stale, FALSE)
           /\ UNCHANGED <<tags, nextID, now>>
        \/ /\ Rollback
           /\ Called("DeleteStale", olderThan, TRUE, {}, TRUE)

\* The goroutines are started, one per pair, and the call waits for them.
Schedule(profiles, regions) ==
    /\ upc' = [u \in Units(profiles, regions) |-> "start"]
    /\ outcome' = [u \in Units(profiles, regions) |->
                      [err |-> "none", fault |-> FALSE]]
    /\ chanCap' = Len(profiles) * Cardinality(regions)
    /\ mpc' = "wait"
    /\ result' = [kind |-> "none", count |-> 0]

\* DiscoverInstances is called, once on the service: lines 44-86.
DiscoverInstances(profiles, regions) ==
    /\ mpc = "idle"
    /\ errorChan' = << >>
    /\ errors' = << >>
    /\ evictRuns' = 0
    /\ IF Len(regions) = 0
       THEN \/ /\ Cardinality(Units(profiles, GetEnabledRegions)) <= MaxUnits
               /\ Schedule(profiles, GetEnabledRegions)
               /\ Called("GetEnabledRegions", << >>, FALSE,
                         GetEnabledRegions, FALSE)
            \/ /\ upc' = << >>
               /\ outcome' = << >>
               /\ chanCap' = 0
               /\ mpc' = "returned"
               /\ result' = [kind |-> "regions", count |-> 0]
               /\ Called("GetEnabledRegions", << >>, TRUE, {}, TRUE)
       ELSE /\ Cardinality(Units(profiles, Range(regions))) <= MaxUnits
            /\ Schedule(profiles, Range(regions))
            /\ UNCHANGED last
    /\ UNCHANGED <<instances, tags, nextID, now, regionRows, profileRows, ceiling, ctxDone,
                   clients, cur, waiters>>

WaitReturnsEarly(pcs) == \E u \in DOMAIN pcs : pcs[u] = "done"

\* wg.Wait() returns when every goroutine has called wg.Done().
WaitReturns(pcs) == \A u \in DOMAIN pcs : pcs[u] = "done"

\* Lines 88-95: wait, close the channel, drain it.
Collect ==
    /\ mpc = "wait"
    /\ WaitReturns(upc)
    /\ errors' = errorChan
    /\ errorChan' = << >>
    /\ mpc' = "collected"
    /\ UNCHANGED <<storeVars, regionRows, profileRows, ceiling, ctxDone, upc,
                   outcome, clients, cur, waiters, chanCap, result,
                   evictRuns>>

\* Lines 101-103 and 209-217: cleanupStaleInstances, with the TTL the
\* configuration holds at that moment; its error is logged.
CleanupStaleInstances ==
    /\ mpc = "collected"
    /\ \E ttl \in TTLSettings :
          IF ParseDuration(ttl).err
          THEN /\ Rollback
               /\ Called("cleanupStaleInstances", ttl, TRUE, {}, FALSE)
          ELSE DeleteStale(ParseDuration(ttl).d)
    /\ evictRuns' = evictRuns + 1
    /\ mpc' = "cleaned"
    /\ UNCHANGED <<regionRows, profileRows, ceiling, ctxDone, upc, outcome, clients,
                   cur, waiters, errorChan, chanCap, errors, result>>

\* Lines 105-109.
Return ==
    /\ mpc = "cleaned"
    /\ result' = IF Len(errors) > 0
                 THEN [kind |-> "errors", count |-> Len(errors)]
                 ELSE [kind |-> "ok", count |-> 0]
    /\ mpc' = "returned"
    /\ UNCHANGED <<storeVars, regionRows, profileRows, ceiling, ctxDone, upc,
                   outcome, clients, cur, waiters, errorChan, chanCap, errors,
                   evictRuns>>

\* The caller cancels ctx.
Cancel ==
    /\ ~ctxDone
    /\ ctxDone' = TRUE
    /\ UNCHANGED <<storeVars, regionRows, profileRows, ceiling, mpc, upc, outcome,
                   clients, cur, waiters, errorChan, chanCap, errors, result,
                   evictRuns>>

\* The state NewDiscoveryService leaves, with max_concurrent_sessions = size.
ServiceInit(size) ==
    /\ regionRows = {Region("r1", TRUE), Region("r2", FALSE)}
    /\ profileRows = {Profile("p1", TRUE), Profile("p2", TRUE)}
    /\ ceiling = size
    /\ ctxDone = FALSE
    /\ mpc = "idle"
    /\ upc = << >>
    /\ outcome = << >>
    /\ clients = << >>
    /\ cur = 0
    /\ waiters = << >>
    /\ errorChan = << >>
    /\ chanCap = 0
    /\ errors = << >>
    /\ result = [kind |-> "none", count |-> 0]
    /\ evictRuns = 0

DiscoverInit ==
    /\ StoreInit
    /\ \E size \in 0..MaxCeiling : ServiceInit(size)
    /\ firstRun = << >>
    /\ cm = NoCalls

NextDiscover ==
    \/ /\ \E profiles \in ProfileLists, regions \in RegionLists :
             DiscoverInstances(profiles, regions)
       /\ UNCHANGED <<firstRun, cm>>
    \/ (\E u \in DOMAIN upc : Acquire(u)) /\ UNCHANGED <<firstRun, cm>>
    \/ (\E u \in DOMAIN upc : AcquireCancelled(u)) /\ UNCHANGED <<firstRun, cm>>
    \/ (\E u \in DOMAIN upc : AcquireGranted(u)) /\ UNCHANGED <<firstRun, cm>>
    \/ (\E u \in DOMAIN upc : DiscoverEC2(u)) /\ UNCHANGED <<firstRun, cm>>
    \/ (\E u \in DOMAIN upc : DiscoverSSM(u)) /\ UNCHANGED <<firstRun, cm>>
    \/ (\E u \in DOMAIN upc : Finish(u)) /\ UNCHANGED <<firstRun, cm>>
    \/ Collect /\ UNCHANGED <<firstRun, cm>>
    \/ CleanupStaleInstances /\ UNCHANGED <<firstRun, cm>>
    \/ Return /\ UNCHANGED <<firstRun, cm>>
    \/ Cancel /\ UNCHANGED <<firstRun, cm>>
    \/ Tick /\ UNCHANGED <<discVars, firstRun, cm>>

SpecDiscover == DiscoverInit /\ [][NextDiscover]_vars

(***************************************************************************)
(* The specifications of the repository alone: the service is constructed  *)
(* with the default ceiling and DiscoverInstances is not called.           *)
(***************************************************************************)
RepositoryInit ==
    StoreInit /\ ServiceInit(DefaultCeiling) /\ firstRun = << >> /\ cm = NoCalls

NextUpsert ==
    \/ \E inst \in UpsertPool : SaveOrUpdate(inst) /\ UNCHANGED <<discVars, firstRun, cm>>
    \/ \E batch \in UpsertBatches :
          SaveOrUpdateBatch(batch) /\ UNCHANGED <<discVars, firstRun, cm>>
    \/ Tick /\ UNCHANGED <<discVars, firstRun, cm>>

SpecUpsert == RepositoryInit /\ [][NextUpsert]_vars

NextResolve ==
    \/ \E batch \in ResolveBatches :
          SaveOrUpdateBatch(batch) /\ UNCHANGED <<discVars, firstRun, cm>>
    \/ \E name \in QueryNames : FindByName(name) /\ UNCHANGED <<discVars, firstRun, cm>>
    \/ Tick /\ UNCHANGED <<discVars, firstRun, cm>>

SpecResolve == RepositoryInit /\ [][NextResolve]_vars

(***************************************************************************)
(* Claims about DiscoverInstances, under SpecDiscover.                     *)
(***************************************************************************)
\* The units that hold an admission slot: granted one and not yet past
\* semaphore.Release.
Holding ==
    {u \in DOMAIN upc :
        upc[u] \in {"granted", "running", "ec2saved", "releasing"}}

\* C1 (bounded concurrency): in every reachable state, the number of units
\* that have acquired an admission slot and not yet released it is at most
\* the configured ceiling, whatever the number of scheduled units and the
\* interleaving of their goroutines.
C1_BoundedConcurrency == Cardinality(Holding) <= ceiling

\* The gate is full and another unit is queued behind it.
C1_Witness ==
    /\ ceiling >= 1
    /\ Cardinality(Holding) = ceiling
    /\ \E u \in DOMAIN upc : upc[u] = "running"
    /\ \E u \in DOMAIN upc : upc[u] = "waiting" /\ u \in Range(waiters)

\* A unit failed when its slot acquisition or one of its remote calls
\* failed; it succeeded when discoverInstancesForProfileRegion returned nil
\* and its store writes went through.
RemoteErrors == {"client", "describe", "ssm"}

Failed == {u \in DOMAIN outcome : outcome[u].err \notin {"none", "ok"}}

RemoteFailed == {u \in DOMAIN outcome : outcome[u].err \in RemoteErrors}

Succeeded ==
    {u \in DOMAIN outcome : outcome[u].err = "ok" /\ ~outcome[u].fault}

RowKey(r) == <<r.instance_id, r.region, r.profile>>

Stored == {RowKey(r) : r \in instances}

\* The records unit u owes the store: every EC2 instance of its pair, and
\* every SSM managed instance of its pair whose id starts with "mi-".
StartsWithMi(id) ==
    Len(id) >= 3 /\ id[1] = "m" /\ id[2] = "i" /\ id[3] = "-"

Expected(u) ==
    LET ec2 == EC2Of(u[1], u[2])
        ssm == SSMOf(u[1], u[2])
    IN  {<<ec2[i].InstanceId[1], u[2], u[1]>> : i \in DOMAIN ec2}
        \cup {<<ssm[i].InstanceId[1], u[2], u[1]>> :
                 i \in {j \in DOMAIN ssm :
                           /\ ssm[j].InstanceId # Nil
                           /\ StartsWithMi(ssm[j].InstanceId[1])}}

Returned == mpc = "returned" /\ result.kind # "regions"

\* The step in which a remote call of some unit fails leaves the context
\* and every other unit as they were.
SiblingsUntouched ==
    \A u \in DOMAIN outcome :
        (/\ DOMAIN outcome' = DOMAIN outcome
         /\ outcome[u].err = "none"
         /\ outcome'[u].err \in RemoteErrors)
        => /\ ctxDone' = ctxDone
           /\ \A v \in DOMAIN outcome \ {u} :
                 outcome'[v] = outcome[v] /\ upc'[v] = upc[v]

AllPresent == \A u \in Succeeded : Expected(u) \subseteq Stored

\* The rows the call's eviction deleted, each older than the TTL.
Evicted ==
    IF last.op = "DeleteStale"
    THEN {RowKey(r) : r \in {x \in last.res : x.last_seen < now - last.arg}}
    ELSE {}

PresentOrEvicted ==
    \A u \in Succeeded : Expected(u) \subseteq (Stored \cup Evicted)

\* C2 as stated (partial-failure tolerance): when the remote call of a unit
\* fails the sibling units are not cancelled, and the records of every other
\* unit that succeeds are in the store when DiscoverInstances returns.
C2_AllRecordsPresent ==
    [][/\ SiblingsUntouched
       /\ (Returned /\ RemoteFailed # {})' => AllPresent']_vars

\* C2, amended: when the remote call of a unit fails the sibling units are
\* not cancelled, and when DiscoverInstances returns the store holds every
\* record of every other unit that succeeds, except the records the call's
\* own final eviction deleted because their last_seen was older than the
\* TTL by then.
C2_PartialFailureTolerance ==
    [][/\ SiblingsUntouched
       /\ (Returned /\ RemoteFailed # {})' => PresentOrEvicted']_vars

\* One unit's remote call failed, another unit succeeded, and the records
\* of that one are in the store at the return.
C2_Witness ==
    /\ Returned
    /\ RemoteFailed # {}
    /\ \E u \in Succeeded : Expected(u) # {} /\ Expected(u) \subseteq Stored

\* The enabled-region lookup of the call failed.
LookupFailed == result.kind = "regions"

\* C3 as stated: DiscoverInstances returns success if and only if zero units
\* failed; otherwise it returns one aggregate error whose count is exactly
\* the number of failed units.
C3_SuccessIffNoFailure ==
    mpc = "returned" =>
        /\ result.kind = "ok" <=> Failed = {}
        /\ result.kind # "ok" =>
              result.kind = "errors" /\ result.count = Cardinality(Failed)

\* C3, amended: DiscoverInstances returns success if and only if it could
\* determine the regions and zero units failed.  When regions is empty and
\* the lookup of the enabled regions fails it returns that error and no
\* unit is scheduled; otherwise, when units failed, it returns one aggregate
\* error whose count is exactly the number of failed units, each counted
\* once, a unit that failed while waiting for a slot included.
C3_SuccessIffLookupAndNoFailure ==
    mpc = "returned" =>
        /\ result.kind = "ok" <=> (~LookupFailed /\ Failed = {})
        /\ LookupFailed =>
              /\ DOMAIN upc = {}
              /\ last.op = "GetEnabledRegions" /\ last.err
        /\ (~LookupFailed /\ Failed # {}) =>
              result.kind = "errors" /\ result.count = Cardinality(Failed)

\* The call returned an aggregate error counting two units: one that failed
\* waiting for its slot and one whose remote call failed.
C3_Witness ==
    /\ mpc = "returned"
    /\ result = [kind |-> "errors", count |-> 2]
    /\ \E u \in Failed : outcome[u].err = "acquire"
    /\ RemoteFailed # {}

\* C4 (eviction runs once): cleanupStaleInstances is not entered before
\* every goroutine of the call has finished, is entered at most once in the
\* call, and has been entered exactly once when the call that scheduled its
\* units returns, however many of them failed.
C4_EvictionOnce ==
    /\ evictRuns <= 1
    /\ mpc \in {"idle", "wait", "collected"} => evictRuns = 0
    /\ evictRuns = 1 => \A u \in DOMAIN upc : upc[u] = "done"
    /\ Returned => evictRuns = 1

\* A call with a failed and a successful unit has returned after its one
\* eviction.
C4_Witness ==
    /\ Returned
    /\ evictRuns = 1
    /\ Failed # {}
    /\ \E u \in DOMAIN outcome : outcome[u].err = "ok"

(***************************************************************************)
(* Claims about the upsert operations, under SpecUpsert.                   *)
(***************************************************************************)
\* The tags a record carries, as the bag of rows they are stored as.
SuppliedTags(inst) ==
    LET row(i) == [instance_id |-> inst.instance_id,
                   key |-> inst.tags[i].key, value |-> inst.tags[i].value]
        rows == {row(i) : i \in 1..Len(inst.tags)}
    IN  [r \in rows |-> Cardinality({i \in 1..Len(inst.tags) : row(i) = r})]

InstanceIDsOf(batch) == {batch[i].instance_id : i \in 1..Len(batch)}

\* The positions of a batch whose record has the id and carries tags.
Tagging(batch, iid) ==
    {i \in 1..Len(batch) :
        batch[i].instance_id = iid /\ Len(batch[i].tags) > 0}

\* The store a successful SaveOrUpdate(inst) or SaveOrUpdateBatch(batch)
\* commits when it starts now and its statements run at t1.
AfterRecord(inst, t1) == UpsertRecord(DB, inst, now, t1)

AfterBatch(batch, t1) == UpsertBatch(DB, batch, now, t1)

\* C5 (tag preservation): from every reachable store, an upsert of a record
\* carrying zero tags (SaveOrUpdate), or of a batch in which no record of an
\* instance id carries tags (SaveOrUpdateBatch), leaves the stored tags of
\* that instance id as they were.
C5_TagPreservation ==
    \A t1 \in ClockAfter(now) :
        /\ \A inst \in UpsertPool :
              Len(inst.tags) = 0
                => TagsOf(AfterRecord(inst, t1).tags, inst.instance_id)
                     = TagsOf(tags, inst.instance_id)
        /\ \A batch \in UpsertBatches : \A iid \in InstanceIDsOf(batch) :
              Tagging(batch, iid) = {}
                => TagsOf(AfterBatch(batch, t1).tags, iid) = TagsOf(tags, iid)

\* Reached only by upserting the tag-less record of (IdA, r1) (the one input
\* with state Online for that key) onto the row that the tagged record of the
\* same key (the one input naming it Web) had written with its tags.
C5_Witness ==
    /\ last.op \in {"SaveOrUpdate", "SaveOrUpdateBatch"} /\ ~last.err
    /\ \E r \in instances :
          /\ r.instance_id = IdA /\ r.region = "r1"
          /\ r.state = "Online" /\ r.name = Web
    /\ DOMAIN TagsOf(tags, IdA) # {}

\* C6 (tag replacement): from every reachable store, after a successful
\* upsert of a record carrying a non-empty tag list the stored tags of its
\* instance id are exactly the supplied ones, each as many times as
\* supplied; for a batch, those of the last record of the id that carries
\* tags.
C6_TagReplacement ==
    \A t1 \in ClockAfter(now) :
        /\ \A inst \in UpsertPool :
              Len(inst.tags) > 0
                => TagsOf(AfterRecord(inst, t1).tags, inst.instance_id)
                     = SuppliedTags(inst)
        /\ \A batch \in UpsertBatches : \A iid \in InstanceIDsOf(batch) :
              Tagging(batch, iid) # {}
                => TagsOf(AfterBatch(batch, t1).tags, iid)
                     = SuppliedTags(batch[Max(Tagging(batch, iid))])

\* The tags of IdA are those of its r2 record, both copies of the tag it
\* lists twice, although its r1 row, written with two other tags, exists:
\* they were replaced wholesale.
C6_Witness ==
    /\ last.op \in {"SaveOrUpdate", "SaveOrUpdateBatch"} /\ ~last.err
    /\ \E r \in instances :
          r.instance_id = IdA /\ r.region = "r1" /\ r.name = Web
    /\ TagsOf(tags, IdA)
         = SuppliedTags([instance_id |-> IdA,
                         tags |-> <<Tag("Env", Prod), Tag("Env", Prod)>>])

\* What an upsert may not change when it is repeated: every column but the
\* timestamps, and the tags.
NonTimestamp(r) ==
    [id |-> r.id, instance_id |-> r.instance_id, name |-> r.name,
     region |-> r.region, profile |-> r.profile, account_id |-> r.account_id,
     state |-> r.state, platform |-> r.platform]

View(db) ==
    [rows |-> {NonTimestamp(r) : r \in db.instances}, tags |-> db.tags]

KeyOf(x) == <<x.instance_id, x.region, x.profile>>

\* C7 (upsert idempotence): from every reachable store, applying a batch and
\* then the same batch again leaves exactly one row per key of the batch, and
\* the non-timestamp columns and the tags as they were after the first pass.
C7_UpsertIdempotent ==
    \A batch \in UpsertBatches :
        \A t1 \in ClockAfter(now) : \A t2 \in ClockAfter(t1) :
            LET once == AfterBatch(batch, t1)
                twice == UpsertBatch(once, batch, t1, t2)
            IN  /\ View(twice) = View(once)
                /\ \A i \in 1..Len(batch) :
                      Cardinality({r \in twice.instances :
                                      KeyOf(r) = KeyOf(batch[i])}) = 1

\* A store a two-record batch with tags was applied to, which applying it
\* again leaves as it is.
C7_Witness ==
    /\ last.op = "SaveOrUpdateBatch" /\ ~last.err
    /\ \E batch \in UpsertBatches :
          /\ Len(batch) = 2
          /\ KeyOf(batch[1]) = KeyOf(batch[2])
          /\ batch[1] # batch[2]
          /\ Len(batch[1].tags) > 0
          /\ View(UpsertBatch(DB, batch, now, now)) = View(DB)

(***************************************************************************)
(* Claims about FindByName, under SpecResolve.                             *)
(***************************************************************************)
\* The rank as the specification words it: 0 for the state Online, 1 for
\* running in any letter case, 2 for every other state.
SpecRank(state) ==
    IF state = "Online" THEN 0
    ELSE IF state \in {"running", "Running", "RUNNING"} THEN 1
    ELSE 2

\* FindByName returned a row, and no query it issued failed.
Resolved == last.op = "FindByName" /\ ~last.fault /\ last.res # None

Result == last.res[1].row

\* The stored rows carrying the name the returned row was matched by.
Candidates == WhereName(instances, Result.name)

\* C8 (resolution ordering): when rows carry the queried name, FindByName
\* returns one of them, and none of them has a smaller rank than it.
C8_ResolutionOrdering ==
    (last.op = "FindByName" /\ ~last.fault
        /\ WhereName(instances, last.arg) # {})
    => /\ last.res # None
       /\ Result \in WhereName(instances, last.arg)
       /\ \A x \in WhereName(instances, last.arg) :
             SpecRank(Result.state) <= SpecRank(x.state)

\* Among same-named rows in states ConnectionLost, Online and running, the
\* Online one is returned though it is neither the row seen last nor the
\* row inserted first.
C8_Witness ==
    /\ Resolved /\ last.arg = Db
    /\ Result.state = "Online"
    /\ \E x, y \in Candidates :
          /\ x.state = "ConnectionLost" /\ y.state = "running"
          /\ x.last_seen > Result.last_seen
          /\ y.id < Result.id

SameRank(x) == SpecRank(x.state) = SpecRank(Result.state)

\* C9 as stated: the returned row has the latest last_seen of its rank, the
\* latest updated_at among those, and these decide the result: no other
\* candidate of the rank has the same last_seen and updated_at.
C9_DeterminedByTimes ==
    Resolved =>
        \A x \in Candidates \ {Result} :
            SameRank(x) =>
                \/ x.last_seen < Result.last_seen
                \/ /\ x.last_seen = Result.last_seen
                   /\ x.updated_at < Result.updated_at

\* C9 (resolution recency tie-break), amended: among the candidates of its
\* rank the returned row has the latest last_seen, among those the latest
\* updated_at, and among those the smallest primary key.
C9_RecencyThenKey ==
    Resolved =>
        \A x \in Candidates \ {Result} :
            SameRank(x) =>
                \/ x.last_seen < Result.last_seen
                \/ /\ x.last_seen = Result.last_seen
                   /\ \/ x.updated_at < Result.updated_at
                      \/ /\ x.updated_at = Result.updated_at
                         /\ Result.id < x.id

\* The returned row beat, by its primary key alone, a candidate of its rank
\* equal to it in last_seen and updated_at.
C9_Witness ==
    /\ Resolved
    /\ \E x \in Candidates \ {Result} :
          /\ SameRank(x) /\ x.last_seen = Result.last_seen
          /\ x.updated_at = Result.updated_at
          /\ Result.id < x.id

\* The ordered lookup of a name, as a function of the store.
Lookup(name) ==
    IF WhereName(instances, name) = {} THEN None
    ELSE Some(tags, First(WhereName(instances, name)))

HasDot(name) == \E i \in 1..Len(name) : name[i] = "."

BeforeFirstDot(name) ==
    SubSeq(name, 1,
           (CHOOSE i \in 1..Len(name) :
               name[i] = "." /\ \A j \in 1..(i - 1) : name[j] # ".") - 1)

\* C10 as stated: a queried name without an exact match that contains a '.'
\* resolves to the lookup of what precedes its first '.'.
C10_FallbackAnyDot ==
    (last.op = "FindByName" /\ ~last.fault
        /\ WhereName(instances, last.arg) = {} /\ HasDot(last.arg))
    => last.res = Lookup(BeforeFirstDot(last.arg))

\* C10 (fallback suffix stripping), amended: a queried name without an exact
\* match whose first '.' is not its first character resolves to the lookup
\* of what precedes that '.'; a name that starts with '.' resolves to none.
C10_FallbackSuffixStripping ==
    (last.op = "FindByName" /\ ~last.fault
        /\ WhereName(instances, last.arg) = {} /\ HasDot(last.arg))
    => IF last.arg[1] = "."
       THEN last.res = None
       ELSE last.res = Lookup(BeforeFirstDot(last.arg))

\* The query d.y, which no row carries, returned a row named d.
C10_Witness ==
    /\ Resolved /\ last.arg = DbY
    /\ WhereName(instances, DbY) = {}
    /\ Result.name = Db

\* The stored rows a name matches.
Matching(name) == {r \in instances : r.name = name}

\* A resolution miss: no stored row carries the name, nor, when the name has
\* a '.', what precedes its first '.'.
Miss(name) ==
    /\ Matching(name) = {}
    /\ HasDot(name) => Matching(BeforeFirstDot(name)) = {}

\* C11 (a miss is not an error): when neither the queried name nor, if it
\* has a '.', its suffix-stripped form matches a stored record, and the
\* store answers the queries, FindByName returns no record and no error.
C11_MissIsNotError ==
    (last.op = "FindByName" /\ ~last.fault /\ Miss(last.arg))
    => ~last.err /\ last.res = None

\* The query d.y on a store that holds rows, none named d.y or d, returned
\* none without an error.
C11_Witness ==
    /\ last.op = "FindByName" /\ ~last.fault /\ last.arg = DbY
    /\ instances # {}
    /\ Miss(DbY)
    /\ ~last.err /\ last.res = None

(***************************************************************************)
(* SpecEvict: DeleteStale on stores built by upserts of UpsertPool, with   *)
(* durations in clock ticks, a negative one included.                      *)
(***************************************************************************)
Durations == {-1, 0, 1}

EvictBatches == {Seq1(x) : x \in UpsertPool}

NextEvict ==
    \/ \E batch \in EvictBatches :
          nextID <= MaxID /\ SaveOrUpdateBatch(batch) /\ UNCHANGED <<discVars, firstRun, cm>>
    \/ \E olderThan \in Durations :
          DeleteStale(olderThan) /\ UNCHANGED <<discVars, firstRun, cm>>
    \/ Tick /\ UNCHANGED <<discVars, firstRun, cm>>

SpecEvict == RepositoryInit /\ [][NextEvict]_vars

\* C12 (TTL eviction): a DeleteStale(ttl) the store carries out removes
\* every record whose last_seen is older than now - ttl, retains every
\* record whose last_seen is not, removes nothing else (no tag, no key
\* counter), and returns no error, whether or not a record was stale.
C12_TTLEviction ==
    [][\A olderThan \in Durations :
          (DeleteStale(olderThan) /\ ~last'.fault)
          => /\ instances'
                  = {r \in instances : ~(r.last_seen < now - olderThan)}
             /\ tags' = tags
             /\ nextID' = nextID
             /\ ~last'.err]_vars

\* A DeleteStale of duration 0 removed a row last seen before the call and
\* kept a row last seen at the time of the call.
C12_Witness ==
    /\ last.op = "DeleteStale" /\ last.arg = 0 /\ ~last.err
    /\ \E r \in last.res : r.last_seen < now
    /\ \E r \in instances : r.last_seen = now
    /\ last.res \cap instances = {}


(***************************************************************************)
(* Claims about one unit's writes, under SpecDiscover.                     *)
(***************************************************************************)
\* The rows stored for instance id in the scope of unit u.
Rows(id, u) == {r \in instances : RowKey(r) = <<id, u[2], u[1]>>}

ComputeIDs(u) ==
    {EC2Of(u[1], u[2])[i].InstanceId[1] : i \in DOMAIN EC2Of(u[1], u[2])}

AgentIDs(u) ==
    LET ssm == SSMOf(u[1], u[2])
    IN  {ssm[i].InstanceId[1] : i \in {j \in DOMAIN ssm : ssm[j].InstanceId # Nil}}

ReportedByBoth(u) == ComputeIDs(u) \cap AgentIDs(u)

AgentOnly(u) == {id \in AgentIDs(u) \ ComputeIDs(u) : StartsWithMi(id)}

AgentSkipped(u) == {id \in AgentIDs(u) \ ComputeIDs(u) : ~StartsWithMi(id)}

\* The state the compute source reports for instance id of unit u.
ComputeState(id, u) ==
    LET ec2 == EC2Of(u[1], u[2])
    IN  ec2[CHOOSE i \in DOMAIN ec2 : ec2[i].InstanceId[1] = id].State

\* Unit u has completed with both writes through, and the eviction of the
\* call has not run yet.
Completed(u) == u \in Succeeded /\ mpc \in {"wait", "collected"}

\* Every unit a call can schedule, and over all of them: the keys stored
\* once, the keys of the agent-only entries that are skipped, and the state
\* the compute source reports for the keys both sources report.
AllUnits == UNION {Units(profiles, Range(regions)) :
                      profiles \in ProfileLists, regions \in RegionLists}

UnitKey(id, u) == <<id, u[2], u[1]>>

UnitOf(key) == <<key[3], key[2]>>

StoredOnce ==
    UNION {{UnitKey(id, u) : id \in ReportedByBoth(u) \cup AgentOnly(u)} :
              u \in AllUnits}

Skipped == UNION {{UnitKey(id, u) : id \in AgentSkipped(u)} : u \in AllUnits}

FromCompute ==
    UNION {{<<UnitKey(id, u), ComputeState(id, u)>> :
               id \in ReportedByBoth(u)} : u \in AllUnits}

\* C13 (de-duplication): after a unit completes, an instance the compute
\* source and the agent source both report under the same i-* id is stored
\* as exactly one record, the one converted from the compute source; an
\* agent-source entry is written only if its id starts with mi-, so an
\* agent-only entry with another id is never stored, and each agent-only
\* mi-* instance is stored as exactly one record.
C13_Deduplication ==
    /\ Stored \cap Skipped = {}
    /\ \A r \in instances, x \in instances :
          (RowKey(r) \in StoredOnce /\ RowKey(r) = RowKey(x)) => r = x
    /\ \A r \in instances : \A p \in FromCompute :
          RowKey(r) = p[1] => r.state = p[2]
    /\ \A u \in DOMAIN outcome :
          Completed(u) =>
             \A key \in StoredOnce : UnitOf(key) = u => key \in Stored

\* The unit of p1/r1 has completed: i-a, reported by both sources, and mi-b
\* are stored once each, and the agent-only i-c is not stored.
C13_Witness ==
    /\ <<"p1", "r1">> \in DOMAIN outcome
    /\ Completed(<<"p1", "r1">>)
    /\ ReportedByBoth(<<"p1", "r1">>) = {IdA}
    /\ AgentOnly(<<"p1", "r1">>) = {IdB}
    /\ AgentSkipped(<<"p1", "r1">>) = {IdC}
    /\ Cardinality(Rows(IdA, <<"p1", "r1">>)) = 1
    /\ Cardinality(Rows(IdB, <<"p1", "r1">>)) = 1
    /\ Rows(IdC, <<"p1", "r1">>) = {}


\* The records unit u has in the store.
Written(u) == Expected(u) \cap Stored

\* C14 (a unit's writes are all-or-nothing): the compute-source and the
\* agent-source record sets of one unit are written in one batch-upsert
\* transaction, so a unit recorded as failed has written none of its
\* records and a unit that returned without error has written both sets.
C14_UnitAllOrNothing ==
    \A u \in DOMAIN outcome :
        mpc \in {"wait", "collected"} =>
            /\ u \in Failed => Written(u) = {}
            /\ outcome[u].err = "ok" => Written(u) = Expected(u)


(***************************************************************************)
(* Claims about the batch transaction, under SpecUpsert.                   *)
(***************************************************************************)
TablesUnchanged ==
    instances' = instances /\ tags' = tags /\ nextID' = nextID

\* C15 (the batch upsert is one transaction): when SaveOrUpdateBatch fails,
\* whichever record or statement failed, the store shows no change from the
\* batch: records, tags and key counter are as before the call; and an
\* empty batch succeeds and changes nothing.
C15_BatchTransaction ==
    [][/\ (last'.op = "SaveOrUpdateBatch" /\ last'.err) => TablesUnchanged
       /\ SaveOrUpdateBatch(<< >>) => ~last'.err /\ TablesUnchanged]_vars

\* A batch upsert has failed on a store that holds records and tags.
C15_Witness ==
    /\ last.op = "SaveOrUpdateBatch" /\ last.err /\ last.fault
    /\ instances # {}
    /\ DOMAIN tags # {}


(***************************************************************************)
(* Claims about store errors during discovery, under SpecDiscover.         *)
(***************************************************************************)
\* The units whose error DiscoverInstances collected.
Counted == {errors[i].unit : i \in DOMAIN errors}

\* C16 (a store error is fatal to the enclosing unit): if a batch upsert of
\* a unit fails, that unit is recorded as failed and is counted in the
\* aggregate error DiscoverInstances returns; a unit is never reported
\* successful when one of its store writes failed.
C16_StoreErrorFatalToUnit ==
    Returned =>
        \A u \in DOMAIN outcome :
            outcome[u].fault =>
                /\ u \in Failed
                /\ u \in Counted
                /\ result.kind = "errors"


\* C17 (a failed eviction is reported): if the stale-entry eviction at the
\* end of DiscoverInstances fails in the store, DiscoverInstances returns
\* an error instead of reporting success.
C17_EvictionFailureReturned ==
    (mpc = "returned" /\ last.op = "DeleteStale" /\ last.fault)
    => result.kind # "ok"


(***************************************************************************)
(* Claims about store failures in resolution, under SpecResolve.           *)
(***************************************************************************)
\* C18 (resolution reports store failures): FindByName returns an error,
\* not "none", whenever a query it issues fails in the store, in the
\* exact-name lookup and in the suffix-stripped fallback lookup alike.
C18_QueryFailureIsError ==
    (last.op = "FindByName" /\ last.fault) => last.err


(***************************************************************************)
(* Claims about the unique key, under SpecDiscover.                        *)
(***************************************************************************)
\* C19 (unique key): in every reachable state the store holds at most one
\* instance record per (instance_id, region, profile) key, after any
\* sequence of upserts, batches that repeat a key and the upserts of
\* concurrent units included.
C19_UniqueKey ==
    \A r \in instances, x \in instances : RowKey(r) = RowKey(x) => r = x

\* Two units have run side by side and written their batches, the batch of
\* p2/r1 carrying i-c twice: the store holds one row for each key.
C19_Witness ==
    /\ DOMAIN outcome = {<<"p1", "r1">>, <<"p2", "r1">>}
    /\ \A u \in DOMAIN outcome : outcome[u].err = "ok" /\ ~outcome[u].fault
    /\ Len(EC2Batch("p2", "r1", "222")) = 2
    /\ Cardinality(Rows(IdC, <<"p2", "r1">>)) = 1
    /\ Cardinality(Rows(IdA, <<"p1", "r1">>)) = 1
    /\ Cardinality(instances) = 3


(***************************************************************************)
(* Claims about the assigned columns, under SpecUpsert.                    *)
(***************************************************************************)
\* Row r carries the four assigned columns of the supplied record.
Carries(r, inst) ==
    /\ r.name = inst.name
    /\ r.account_id = inst.account_id
    /\ r.state = inst.state
    /\ r.platform = inst.platform

\* C20 (the upsert assigns the supplied columns): after a successful upsert
\* of a record, the stored record of its key has name, account_id, state
\* and platform equal to the values supplied in that record, for every
\* supplied value and whatever values were stored before.
C20_AssignsSuppliedColumns ==
    \A inst \in UpsertPool : \A t1 \in ClockAfter(now) :
        \A r \in AfterRecord(inst, t1).instances :
            KeyOf(r) = KeyOf(inst) => Carries(r, inst)


(***************************************************************************)
(* Claims about last_seen, under SpecUpsert.                               *)
(***************************************************************************)
\* The rows of db under the key of record inst.
RowsOfKey(db, inst) == {r \in db.instances : KeyOf(r) = KeyOf(inst)}

\* The upsert that started when the clock read now and ended at t1 left
\* every row of the key of inst seen during the upsert, and not earlier than
\* the row it replaced.
SeenAtUpsert(after, inst, t1) ==
    \A r \in RowsOfKey(after, inst) :
        /\ now <= r.last_seen /\ r.last_seen <= t1
        /\ \A old \in RowsOfKey(DB, inst) : old.last_seen <= r.last_seen

\* C21 (last_seen is refreshed by every upsert): from every reachable store,
\* a successful upsert of a record, alone or in a batch, sets the last_seen
\* of its row to the time of that upsert, also when no other column
\* changes; hence last_seen never decreases across upserts.
C21_LastSeenRefreshed ==
    /\ \A r \in instances : r.last_seen <= now
    /\ \A inst \in UpsertPool : \A t1 \in ClockAfter(now) :
          SeenAtUpsert(AfterRecord(inst, t1), inst, t1)
    /\ \A batch \in UpsertBatches : \A t1 \in ClockAfter(now) :
          \A i \in DOMAIN batch :
             SeenAtUpsert(AfterBatch(batch, t1), batch[i], t1)

\* Two rows were created when the clock read 0, and the older one was
\* upserted again later: its last_seen is the later time.
C21_Witness ==
    /\ last.op \in {"SaveOrUpdate", "SaveOrUpdateBatch"} /\ ~last.err
    /\ now = 1
    /\ \E r \in instances, x \in instances :
          /\ r.id < x.id
          /\ x.last_seen = 0
          /\ r.last_seen = 1


(***************************************************************************)
(* Claims about cancellation, under SpecDiscover.                          *)
(***************************************************************************)
\* Unit u has not passed the gate yet; unit u has passed it and runs.
AtGate(u) == upc[u] \in {"start", "waiting", "granted"}

Started(u) == upc[u] \in {"running", "ec2saved", "releasing"}

Posted(u) == \E i \in DOMAIN errorChan : errorChan[i].unit = u

\* C22 (cancellation at the admission gate): once the caller's context is
\* cancelled no further unit starts; a unit still at the gate can only give
\* up, and when it does it fails with the error of its acquisition, posted
\* on the error channel, without any remote call or store write, and the
\* units that already hold a slot and run are left as they were.
C22_CancellationAtGate ==
    [][(ctxDone /\ DOMAIN upc' = DOMAIN upc) =>
          \A u \in DOMAIN upc :
             AtGate(u) =>
                /\ upc'[u] \in {"start", "waiting", "granted", "done"}
                /\ upc'[u] = "done" =>
                      /\ outcome'[u].err = "acquire"
                      /\ Posted(u)'
                      /\ UNCHANGED <<instances, tags, nextID, last, clients>>
                      /\ \A v \in DOMAIN upc :
                            Started(v) =>
                               upc'[v] = upc[v] /\ outcome'[v] = outcome[v]]_vars

\* The context is cancelled, one unit gave up at the gate, and another one,
\* which held the only slot, goes on with its discovery.
C22_Witness ==
    /\ ctxDone
    /\ ceiling = 1
    /\ \E u \in DOMAIN upc : upc[u] = "done" /\ outcome[u].err = "acquire"
    /\ \E v \in DOMAIN upc : upc[v] = "ec2saved" /\ outcome[v].err = "none"


(***************************************************************************)
(* SpecRerun: DiscoverInstances called twice on one service, with the same *)
(* profiles and regions, in immediate succession: the caller does not      *)
(* cancel, and the clock advances during the store's transactions only.    *)
(***************************************************************************)
\* Every unit of the call that just returned succeeded.
RunSucceeded ==
    /\ mpc = "returned"
    /\ result.kind = "ok"
    /\ \A u \in DOMAIN outcome : u \in Succeeded

\* The keys of the rows the eviction of the call that just returned deleted.
EvictedKeys ==
    IF last.op = "DeleteStale" /\ ~last.err
    THEN {RowKey(r) : r \in last.res} ELSE {}

\* The second call, made after a first call in which every unit succeeded,
\* with the arguments of the first (regions given): lines 44-86 again, on
\* the service and the store as the first call left them.
DiscoverAgain ==
    /\ RunSucceeded
    /\ firstRun = << >>
    /\ firstRun' = <<[view |-> View(DB), evicted |-> EvictedKeys]>>
    /\ UNCHANGED cm
    /\ upc' = [u \in DOMAIN upc |-> "start"]
    /\ outcome' = [u \in DOMAIN upc |-> [err |-> "none", fault |-> FALSE]]
    /\ errorChan' = << >>
    /\ errors' = << >>
    /\ evictRuns' = 0
    /\ mpc' = "wait"
    /\ result' = [kind |-> "none", count |-> 0]
    /\ UNCHANGED <<storeVars, regionRows, profileRows, ceiling, ctxDone, clients, cur,
                   waiters, chanCap>>

\* A ceiling of one: the units of a call run one after the other.
RerunInit ==
    /\ StoreInit
    /\ ServiceInit(1)
    /\ firstRun = << >>
    /\ cm = NoCalls

NextRerun ==
    \/ /\ \E profiles \in ProfileLists, regions \in RegionLists \ {<< >>} :
             DiscoverInstances(profiles, regions)
       /\ UNCHANGED <<firstRun, cm>>
    \/ DiscoverAgain
    \/ (\E u \in DOMAIN upc : Acquire(u)) /\ UNCHANGED <<firstRun, cm>>
    \/ (\E u \in DOMAIN upc : AcquireGranted(u)) /\ UNCHANGED <<firstRun, cm>>
    \/ (\E u \in DOMAIN upc : DiscoverEC2(u)) /\ UNCHANGED <<firstRun, cm>>
    \/ (\E u \in DOMAIN upc : DiscoverSSM(u)) /\ UNCHANGED <<firstRun, cm>>
    \/ (\E u \in DOMAIN upc : Finish(u)) /\ UNCHANGED <<firstRun, cm>>
    \/ Collect /\ UNCHANGED <<firstRun, cm>>
    \/ CleanupStaleInstances /\ UNCHANGED <<firstRun, cm>>
    \/ Return /\ UNCHANGED <<firstRun, cm>>

SpecRerun == RerunInit /\ [][NextRerun]_vars

\* Both calls have returned, and in both every unit succeeded.
BothRunsSucceeded ==
    /\ firstRun # << >>
    /\ RunSucceeded

CachePool ==
    { Inst(IdA, "r1", "p1", Db, "111", "stopped", "Windows",
           <<Tag("Env", Test)>>),
      Inst(IdC, "r1", "p2", Web, "222", "running", "Linux",
           <<Tag("Env", Test)>>) }

ConvergeInit ==
    /\ StoreInit
    /\ ServiceInit(1)
    /\ firstRun = << >>
    /\ cm = NoCalls

NextConverge ==
    \/ /\ mpc = "idle"
       /\ \E inst \in CachePool : SaveOrUpdate(inst)
       /\ UNCHANGED <<discVars, firstRun, cm>>
    \/ /\ \E profiles \in ProfileLists, regions \in RegionLists :
             DiscoverInstances(profiles, regions)
       /\ UNCHANGED <<firstRun, cm>>
    \/ (\E u \in DOMAIN upc : Acquire(u)) /\ UNCHANGED <<firstRun, cm>>
    \/ (\E u \in DOMAIN upc : AcquireGranted(u)) /\ UNCHANGED <<firstRun, cm>>
    \/ (\E u \in DOMAIN upc : DiscoverEC2(u)) /\ UNCHANGED <<firstRun, cm>>
    \/ (\E u \in DOMAIN upc : DiscoverSSM(u)) /\ UNCHANGED <<firstRun, cm>>
    \/ (\E u \in DOMAIN upc : Finish(u)) /\ UNCHANGED <<firstRun, cm>>
    \/ Collect /\ UNCHANGED <<firstRun, cm>>
    \/ CleanupStaleInstances /\ UNCHANGED <<firstRun, cm>>
    \/ Return /\ UNCHANGED <<firstRun, cm>>

SpecConverge == ConvergeInit /\ [][NextConverge]_vars

\* What the remote sources reported for unit u in the run, converted: for
\* each EC2 instance id its last entry, and the mi-* entries of the SSM
\* listing.
Reported(u) ==
    LET ec2 == EC2Batch(u[1], u[2], clients[Key(u)])
        ssm == SSMBatch(u[1], u[2], clients[Key(u)])
    IN  {ec2[i] : i \in {j \in DOMAIN ec2 :
                            \A k \in DOMAIN ec2 :
                               ec2[k].instance_id = ec2[j].instance_id
                               => k <= j}}
        \cup {ssm[i] : i \in DOMAIN ssm}

\* The store shows record inst as the remote source reported it.
ShowsAsReported(inst) ==
    /\ \E r \in instances :
          /\ KeyOf(r) = KeyOf(inst)
          /\ r.name = inst.name
          /\ r.state = inst.state
          /\ r.platform = inst.platform
    /\ TagsOf(tags, inst.instance_id) = SuppliedTags(inst)

\* C24 (convergence toward the remote truth): after a DiscoverInstances run
\* in which every unit succeeds, each instance observed in that run is
\* stored with the name, state, platform and tag set that the remote source
\* reported for it in that run, for every remote value and whatever the
\* cache held before.
C24_ConvergesToRemote ==
    RunSucceeded =>
        \A u \in DOMAIN outcome : \A inst \in Reported(u) :
            ShowsAsReported(inst)


(***************************************************************************)
(* SpecList: List(filter) on a store filled from ListPool.                 *)
(***************************************************************************)
\* SQLite's LIKE folds the case of ASCII letters.
FoldCase(c) ==
    CASE c = "W" -> "w"
      [] c = "D" -> "d"
      [] OTHER -> c

\* name LIKE pattern: % stands for any run of characters, _ for any one
\* character, every other character for itself, case folded.
RECURSIVE Like(_, _)
Like(s, pattern) ==
    IF Len(pattern) = 0 THEN Len(s) = 0
    ELSE IF Head(pattern) = "%"
         THEN \/ Like(s, Tail(pattern))
              \/ Len(s) > 0 /\ Like(Tail(s), pattern)
    ELSE /\ Len(s) > 0
         /\ Head(pattern) = "_" \/ FoldCase(Head(pattern)) = FoldCase(Head(s))
         /\ Like(Tail(s), Tail(pattern))

\* A nil filter is << >>; a filter is <<[Profile, Region, Name, State]>>,
\* each field a pointer.
InstanceFilter(profile, region, name, state) ==
    <<[Profile |-> profile, Region |-> region, Name |-> name,
       State |-> state]>>

WhereFilterNoState(r, filter) ==
    \/ filter = Nil
    \/ /\ filter[1].Profile # Nil => r.profile = filter[1].Profile[1]
       /\ filter[1].Region # Nil => r.region = filter[1].Region[1]
       /\ filter[1].Name # Nil
             => Like(r.name, <<"%">> \o filter[1].Name[1] \o <<"%">>)

\* The WHERE clauses List adds for the fields of the filter that are set.
WhereFilter(r, filter) ==
    \/ filter = Nil
    \/ /\ filter[1].Profile # Nil => r.profile = filter[1].Profile[1]
       /\ filter[1].Region # Nil => r.region = filter[1].Region[1]
       /\ filter[1].Name # Nil
             => Like(r.name, <<"%">> \o filter[1].Name[1] \o <<"%">>)
       /\ filter[1].State # Nil => r.state = filter[1].State[1]

\* The BINARY collation, on the characters and the strings of the model.
Byte(c) ==
    CASE c = "%" -> 37 [] c = "." -> 46 [] c = "D" -> 68 [] c = "W" -> 87
      [] c = "_" -> 95 [] c = "d" -> 100 [] c = "p" -> 112 [] c = "t" -> 116
      [] c = "w" -> 119 [] c = "x" -> 120 [] c = "y" -> 121

Collate(s) ==
    CASE s = "p1" -> 1 [] s = "p2" -> 2 [] s = "p3" -> 3
      [] s = "r1" -> 1 [] s = "r2" -> 2

RECURSIVE NameCompare(_, _)
NameCompare(a, b) ==
    IF Len(a) = 0 THEN (IF Len(b) = 0 THEN 0 ELSE -1)
    ELSE IF Len(b) = 0 THEN 1
    ELSE IF Byte(Head(a)) < Byte(Head(b)) THEN -1
    ELSE IF Byte(Head(a)) > Byte(Head(b)) THEN 1
    ELSE NameCompare(Tail(a), Tail(b))

\* ORDER BY profile ASC, region ASC, name ASC: a may come before b.
ListOrder(a, b) ==
    \/ Collate(a.profile) < Collate(b.profile)
    \/ /\ a.profile = b.profile
       /\ \/ Collate(a.region) < Collate(b.region)
          \/ a.region = b.region /\ NameCompare(a.name, b.name) <= 0

\* query.Find(&instances): the matching rows, in an order the ORDER BY allows.
Find(rows) ==
    {res \in [1..Cardinality(rows) -> rows] :
        /\ \A i, j \in DOMAIN res : i # j => res[i] # res[j]
        /\ \A i, j \in DOMAIN res : i < j => ListOrder(res[i], res[j])}

List(filter) ==
    /\ Rollback
    /\ \/ \E res \in Find({r \in instances : WhereFilter(r, filter)}) :
             Called("List", filter, FALSE, res, FALSE)
       \/ Called("List", filter, TRUE, << >>, TRUE)

Wd == <<"W", "d">>

ListPool ==
    { Inst(IdA, "r1", "p1", Web, "111", "running", "Linux", << >>),
      Inst(IdA, "r2", "p1", Wd, "111", "Running", "Linux", << >>),
      Inst(IdB, "r1", "p2", Db, "222", "running", "Linux", << >>) }

ListFilters ==
    { Nil,
      InstanceFilter(Nil, Nil, Nil, Nil),
      InstanceFilter(Ptr("p1"), Nil, Nil, Nil),
      InstanceFilter(Nil, Ptr("r1"), Nil, Nil),
      InstanceFilter(Nil, Nil, Ptr(Web), Nil),
      InstanceFilter(Nil, Nil, Ptr(<<"_", "d">>), Nil),
      InstanceFilter(Nil, Nil, Ptr(<<"W", "%", "D">>), Nil),
      InstanceFilter(Nil, Nil, Ptr(NoName), Nil),
      InstanceFilter(Nil, Nil, Nil, Ptr("running")),
      InstanceFilter(Ptr("p1"), Ptr("r1"), Ptr(Db), Ptr("running")),
      InstanceFilter(Ptr("p1"), Nil, Ptr(Db), Ptr("Running")) }

NextList ==
    \/ \E inst \in ListPool :
          SaveOrUpdateBatch(Seq1(inst)) /\ UNCHANGED <<discVars, firstRun, cm>>
    \/ \E filter \in ListFilters :
          List(filter) /\ UNCHANGED <<discVars, firstRun, cm>>

SpecList == RepositoryInit /\ [][NextList]_vars


Listed == last.op = "List" /\ ~last.err

ListedRows == {last.res[i] : i \in DOMAIN last.res}

\* sub occurs in name as it is written.
Substring(name, sub) ==
    \E i \in 0..Len(name) :
        i + Len(sub) <= Len(name) /\ SubSeq(name, i + 1, i + Len(sub)) = sub

SatisfiesSubstring(r, filter) ==
    \/ filter = Nil
    \/ /\ filter[1].Profile # Nil => r.profile = filter[1].Profile[1]
       /\ filter[1].Region # Nil => r.region = filter[1].Region[1]
       /\ filter[1].Name # Nil => Substring(r.name, filter[1].Name[1])
       /\ filter[1].State # Nil => r.state = filter[1].State[1]

SameLetter(a, b) == a = b \/ {a, b} \in {{"w", "W"}, {"d", "D"}}

\* sub occurs in name when letters are compared without their case, "_" in
\* sub stands for any one character and "%" for any run of characters: cut[i]
\* is how much of name the first i characters of sub have covered.
Pattern(name, sub) ==
    \E first \in 0..Len(name) :
    \E cut \in [0..Len(sub) -> first..Len(name)] :
        /\ cut[0] = first
        /\ \A i \in 1..Len(sub) :
              IF sub[i] = "%" THEN cut[i] >= cut[i - 1]
              ELSE /\ cut[i] = cut[i - 1] + 1
                   /\ sub[i] = "_" \/ SameLetter(sub[i], name[cut[i]])

SatisfiesPattern(r, filter) ==
    \/ filter = Nil
    \/ /\ filter[1].Profile # Nil => r.profile = filter[1].Profile[1]
       /\ filter[1].Region # Nil => r.region = filter[1].Region[1]
       /\ filter[1].Name # Nil => Pattern(r.name, filter[1].Name[1])
       /\ filter[1].State # Nil => r.state = filter[1].State[1]

Ascending(res) ==
    \A i, j \in DOMAIN res :
        i < j =>
            LET a == <<Collate(res[i].profile), Collate(res[i].region)>>
                b == <<Collate(res[j].profile), Collate(res[j].region)>>
            IN  \/ a[1] < b[1]
                \/ a[1] = b[1] /\ a[2] < b[2]
                \/ a = b /\ NameCompare(res[i].name, res[j].name) <= 0

\* C25 as stated: a successful List(filter) returns, once each and ascending by
\* (profile, region, name), exactly the stored records whose profile, region
\* and state equal the supplied ones and whose name contains the supplied
\* name as a substring; a nil or empty filter returns every record.
C25_ListSubstring ==
    Listed =>
        /\ ListedRows = {r \in instances : SatisfiesSubstring(r, last.arg)}
        /\ Len(last.res) = Cardinality(ListedRows)
        /\ Ascending(last.res)

\* C25 as amended: the same, the supplied name being matched as a LIKE
\* pattern: letters without their case, "_" any one character, "%" any run.
C25_ListPattern ==
    Listed =>
        /\ ListedRows = {r \in instances : SatisfiesPattern(r, last.arg)}
        /\ Len(last.res) = Cardinality(ListedRows)
        /\ Ascending(last.res)
        /\ last.arg \in {Nil, InstanceFilter(Nil, Nil, Nil, Nil)}
              => ListedRows = instances

\* Three records listed by state, one of another state left out.
C25_Witness ==
    /\ Listed
    /\ last.arg = InstanceFilter(Nil, Nil, Nil, Ptr("running"))
    /\ Len(last.res) = 2
    /\ Cardinality(instances) = 3


(***************************************************************************)
(* Claims about FindByName as a read, under SpecResolve.                   *)
(***************************************************************************)
\* C26 (pure read): a call of FindByName changes no instance record, no tag
\* and no region or profile enablement row, creates no remote client and
\* starts no discovery unit, whether it returns a record, none or an error.
C26_FindByNamePureRead ==
    [][last'.op = "FindByName"
          => UNCHANGED <<instances, tags, nextID, regionRows, profileRows,
                         clients, upc, outcome>>]_vars

\* FindByName has failed on a store that holds records.
C26_Witness ==
    /\ last.op = "FindByName"
    /\ last.err
    /\ Cardinality(instances) >= 2


(***************************************************************************)
(* The enablement tables "regions" and "profiles" and their repositories.  *)
(***************************************************************************)
\* An enable that inserts a row whether or not the name has one.
EnableRegionInserting(regionName) ==
    /\ \/ /\ regionRows' = regionRows \cup {Region(regionName, TRUE)}
          /\ Called("EnableRegion", regionName, FALSE, << >>, FALSE)
       \/ /\ UNCHANGED regionRows
          /\ Called("EnableRegion", regionName, TRUE, << >>, TRUE)
    /\ UNCHANGED <<instances, tags, nextID, now, profileRows>>

\* Where(Region{Region: name}).Assign(Region{Enabled: true}).FirstOrCreate:
\* the row of the region is created enabled, or found and set enabled.
EnableRegion(regionName) ==
    /\ \/ /\ regionRows' = {x \in regionRows : x.region # regionName}
                              \cup {Region(regionName, TRUE)}
          /\ Called("EnableRegion", regionName, FALSE, << >>, FALSE)
       \/ /\ UNCHANGED regionRows
          /\ Called("EnableRegion", regionName, TRUE, << >>, TRUE)
    /\ UNCHANGED <<instances, tags, nextID, now, profileRows>>

\* UPDATE regions SET enabled = false WHERE region = ?
DisableRegion(regionName) ==
    /\ \/ /\ regionRows' = {IF x.region = regionName
                            THEN Region(regionName, FALSE)
                            ELSE x : x \in regionRows}
          /\ Called("DisableRegion", regionName, FALSE, << >>, FALSE)
       \/ /\ UNCHANGED regionRows
          /\ Called("DisableRegion", regionName, TRUE, << >>, TRUE)
    /\ UNCHANGED <<instances, tags, nextID, now, profileRows>>

EnableProfile(profileName) ==
    /\ \/ /\ profileRows' = {x \in profileRows : x.profile # profileName}
                               \cup {Profile(profileName, TRUE)}
          /\ Called("EnableProfile", profileName, FALSE, << >>, FALSE)
       \/ /\ UNCHANGED profileRows
          /\ Called("EnableProfile", profileName, TRUE, << >>, TRUE)
    /\ UNCHANGED <<instances, tags, nextID, now, regionRows>>

DisableProfile(profileName) ==
    /\ \/ /\ profileRows' = {IF x.profile = profileName
                             THEN Profile(profileName, FALSE)
                             ELSE x : x \in profileRows}
          /\ Called("DisableProfile", profileName, FALSE, << >>, FALSE)
       \/ /\ UNCHANGED profileRows
          /\ Called("DisableProfile", profileName, TRUE, << >>, TRUE)
    /\ UNCHANGED <<instances, tags, nextID, now, regionRows>>

(***************************************************************************)
(* SpecSchedule: one DiscoverInstances call of a service with a ceiling of *)
(* one, after regions were enabled and disabled.                           *)
(***************************************************************************)
RegionNames == {"r1", "r2"}

NextSchedule ==
    \/ /\ mpc = "idle"
       /\ \E regionName \in RegionNames : EnableRegion(regionName)
       /\ UNCHANGED <<ceiling, ctxDone, mpc, upc, outcome, clients, cur,
                      waiters, errorChan, chanCap, errors, result, evictRuns,
                      firstRun, cm>>
    \/ /\ mpc = "idle"
       /\ \E regionName \in RegionNames : DisableRegion(regionName)
       /\ UNCHANGED <<ceiling, ctxDone, mpc, upc, outcome, clients, cur,
                      waiters, errorChan, chanCap, errors, result, evictRuns,
                      firstRun, cm>>
    \/ /\ \E profiles \in ProfileLists, regions \in RegionLists :
             DiscoverInstances(profiles, regions)
       /\ UNCHANGED <<firstRun, cm>>
    \/ (\E u \in DOMAIN upc : Acquire(u)) /\ UNCHANGED <<firstRun, cm>>
    \/ (\E u \in DOMAIN upc : AcquireGranted(u)) /\ UNCHANGED <<firstRun, cm>>
    \/ (\E u \in DOMAIN upc : DiscoverEC2(u)) /\ UNCHANGED <<firstRun, cm>>
    \/ (\E u \in DOMAIN upc : DiscoverSSM(u)) /\ UNCHANGED <<firstRun, cm>>
    \/ (\E u \in DOMAIN upc : Finish(u)) /\ UNCHANGED <<firstRun, cm>>
    \/ Collect /\ UNCHANGED <<firstRun, cm>>
    \/ CleanupStaleInstances /\ UNCHANGED <<firstRun, cm>>
    \/ Return /\ UNCHANGED <<firstRun, cm>>

SpecSchedule == RerunInit /\ [][NextSchedule]_vars

\* The regions whose row in the store says enabled.
EnabledNow == {name \in RegionNames : Region(name, TRUE) \in regionRows}

\* C27 (regions of a call): a DiscoverInstances call with an empty region
\* list that reads the enabled regions schedules exactly one unit for every
\* scope given and every region enabled in the store at the time of the
\* call, none for a disabled region; a call with a non-empty region list
\* schedules exactly one unit for every scope and every region given.
C27_RegionsOfCall ==
    [][\A profiles \in ProfileLists, regions \in RegionLists :
          (DiscoverInstances(profiles, regions) /\ mpc' = "wait")
             => DOMAIN upc' =
                   {u \in Range(profiles) \X RegionNames :
                       IF regions = << >> THEN u[2] \in EnabledNow
                       ELSE \E i \in DOMAIN regions : regions[i] = u[2]}]_vars

\* A call with an empty region list was made after r2 was enabled and r1
\* disabled; its one unit is (p1, r2).
C27_Witness ==
    /\ mpc = "wait"
    /\ regionRows = {Region("r1", FALSE), Region("r2", TRUE)}
    /\ DOMAIN upc = {<<"p1", "r2">>}
    /\ last.op = "GetEnabledRegions"


(***************************************************************************)
(* InitDB: what every start of the program runs on the store.              *)
(***************************************************************************)
\* The regions SetDefaultRegions enables, two standing for its ten.
DefaultRegions == <<"r1", "r2">>

\* What GetAvailableProfiles can find in the AWS files: never an empty list.
AvailableProfiles == {<<"p1">>, <<"p2">>, <<"p1", "p2">>}

Prefix(s, n) == {s[i] : i \in 1..n}

CountIsAnything(rows) == TRUE

\* count == 0
CountIsZero(rows) == rows = {}

\* InitializeRegions: the rows it leaves and whether it failed.  The count
\* can fail; SetDefaultRegions enables the defaults one statement at a time
\* and stops at the first that fails.
InitializeRegions(rows) ==
    {[rows |-> rows, err |-> TRUE]} \cup
    IF CountIsZero(rows)
    THEN {[rows |-> {x \in rows : x.region \notin Prefix(DefaultRegions, n)}
                       \cup {Region(name, TRUE) :
                                name \in Prefix(DefaultRegions, n)},
           err |-> n < Len(DefaultRegions)] : n \in 0..Len(DefaultRegions)}
    ELSE {[rows |-> rows, err |-> FALSE]}

\* InitializeProfiles, the same way, on the profiles found available.
InitializeProfiles(rows, available) ==
    {[rows |-> rows, err |-> TRUE]} \cup
    IF ~(Cardinality(rows) > 0)
    THEN {[rows |-> {x \in rows : x.profile \notin Prefix(available, n)}
                       \cup {Profile(name, TRUE) :
                                name \in Prefix(available, n)},
           err |-> n < Len(available)] : n \in 0..Len(available)}
    ELSE {[rows |-> rows, err |-> FALSE]}

\* InitDB of a process that has not opened the store yet: runMigrations.
InitDB(available) ==
    /\ \/ /\ UNCHANGED <<regionRows, profileRows>>
          /\ Called("InitDB", available, TRUE, << >>, TRUE)
       \/ \E ro \in InitializeRegions(regionRows) :
             /\ regionRows' = ro.rows
             /\ IF ro.err
                THEN /\ UNCHANGED profileRows
                     /\ Called("InitDB", available, TRUE, << >>, TRUE)
                ELSE \E po \in InitializeProfiles(profileRows, available) :
                        /\ profileRows' = po.rows
                        /\ Called("InitDB", available, po.err, << >>, po.err)
    /\ UNCHANGED <<instances, tags, nextID, now>>

(***************************************************************************)
(* SpecEnable: starts of the program on a store that begins without rows,  *)
(* and the enable and disable operations between them.                     *)
(***************************************************************************)
ProfileNames == {"p1", "p2"}

EnableInit ==
    /\ StoreInit
    /\ regionRows = {}
    /\ profileRows = {}
    /\ ceiling = DefaultCeiling
    /\ ctxDone = FALSE
    /\ mpc = "idle"
    /\ upc = << >>
    /\ outcome = << >>
    /\ clients = << >>
    /\ cur = 0
    /\ waiters = << >>
    /\ errorChan = << >>
    /\ chanCap = 0
    /\ errors = << >>
    /\ result = [kind |-> "none", count |-> 0]
    /\ evictRuns = 0
    /\ firstRun = << >>
    /\ cm = NoCalls

serviceVars == <<ceiling, ctxDone, mpc, upc, outcome, clients, cur, waiters,
                 errorChan, chanCap, errors, result, evictRuns, firstRun, cm>>

NextEnable ==
    \/ \E available \in AvailableProfiles :
          InitDB(available) /\ UNCHANGED serviceVars
    \/ \E regionName \in RegionNames :
          EnableRegion(regionName) /\ UNCHANGED serviceVars
    \/ \E regionName \in RegionNames :
          DisableRegion(regionName) /\ UNCHANGED serviceVars
    \/ \E profileName \in ProfileNames :
          EnableProfile(profileName) /\ UNCHANGED serviceVars
    \/ \E profileName \in ProfileNames :
          DisableProfile(profileName) /\ UNCHANGED serviceVars

SpecEnable == EnableInit /\ [][NextEnable]_vars

\* C28 (no automatic reset): a store initialization that finds rows in an
\* enablement table leaves that table as it is, a disabled entry staying
\* disabled; it fills a table only when the table is empty; and the rows of
\* a table that is not empty change only in an explicit enable or disable
\* operation on that table.
C28_NeverAutoReset ==
    [][/\ last'.op = "InitDB"
          => /\ regionRows # {} => regionRows' = regionRows
             /\ profileRows # {} => profileRows' = profileRows
       /\ (regionRows # {} /\ regionRows' # regionRows)
             => last'.op \in {"EnableRegion", "DisableRegion"}
       /\ (profileRows # {} /\ profileRows' # profileRows)
             => last'.op \in {"EnableProfile", "DisableProfile"}]_vars

\* The store was initialized again after r1 and p1 were disabled, and both
\* are still disabled.
C28_Witness ==
    /\ last.op = "InitDB"
    /\ ~last.err
    /\ Region("r1", FALSE) \in regionRows
    /\ Profile("p1", FALSE) \in profileRows


(***************************************************************************)
(* Claims about the ownership of tags, under SpecEvict.                    *)
(***************************************************************************)
Owners(t) == {r \in instances : r.instance_id = t.instance_id}

\* C29 (tag ownership): in every reachable state each stored tag is owned by
\* exactly one instance record: its instance_id is that of an instance
\* record in the store, so that no tag survives the deletion of its
\* instance, and of no more than one such record.
C29_TagOwnedByOneRecord ==
    \A t \in DOMAIN tags : Cardinality(Owners(t)) = 1


(***************************************************************************)
(* Claims about the error channel, under SpecDiscover.                     *)
(***************************************************************************)
\* Every error the units of the call have sent, collected or not yet.
Funneled == errorChan \o errors

ErrorsOf(u) == {i \in DOMAIN Funneled : Funneled[i].unit = u}

\* The units that have neither sent an error nor finished their work.
Undecided == {u \in DOMAIN upc : upc[u] # "done" /\ outcome[u].err = "none"}

\* C30 (error funnel): every scheduled unit posts at most one error; the
\* channel's capacity is the number of units scheduled, and it always has
\* room for an error from each unit that may still post one, so that no
\* unit blocks on posting; once DiscoverInstances has stopped waiting, and
\* so when it returns, every unit has finished, every posted error has been
\* collected and the channel is empty.
C30_ErrorFunnel ==
    /\ \A u \in DOMAIN upc : Cardinality(ErrorsOf(u)) <= 1
    /\ \A i \in DOMAIN Funneled : Funneled[i].unit \in DOMAIN upc
    /\ mpc # "idle" => chanCap = Cardinality(DOMAIN upc)
    /\ Len(errorChan) + Cardinality(Undecided) <= chanCap
    /\ mpc \in {"collected", "cleaned", "returned"}
          => /\ \A u \in DOMAIN upc : upc[u] = "done"
             /\ errorChan = << >>
             /\ {errors[i].unit : i \in DOMAIN errors} = Failed

\* The call has returned after two units failed, one at the gate and one in
\* its remote call, and both errors were collected.
C30_Witness ==
    /\ mpc = "returned"
    /\ Len(errors) = 2
    /\ \E i, j \in DOMAIN errors :
          errors[i].kind = "acquire" /\ errors[j].kind \in RemoteErrors


(***************************************************************************)
(* ClientManager.GetClient, step by step, with its sync.RWMutex.           *)
(***************************************************************************)
ClientPairs == {<<"p1", "r1">>, <<"p2", "r1">>}

\* Caller c moves to pc; what it got is kept.
Step(c, pc, got, slow) ==
    [cm EXCEPT !.pc[c] = pc, !.got[c] = got, !.slow[c] = slow]

\* cm.clients[key]: whether the map has the key.
Exists(slots, key) == key \in DOMAIN slots

DoubleCheckSkipped(slots, key) == FALSE

\* The second look at the map, under the write lock.
DoubleCheck(slots, key) == Exists(slots, key)

\* A goroutine calls GetClient(ctx, profile, region).
CallGetClient(c, u) ==
    /\ cm.pc[c] \in {"idle", "done"}
    /\ cm' = [Step(c, "rlock", 0, FALSE) EXCEPT !.pair[c] = u]
    /\ UNCHANGED clients

\* cm.mutex.RLock(): it waits while a writer holds the lock or waits for it.
RLock(c) ==
    /\ cm.pc[c] = "rlock"
    /\ cm.writer = 0
    /\ \A d \in Callers : cm.pc[d] # "lock"
    /\ cm' = [Step(c, "check", 0, FALSE) EXCEPT !.readers = @ \cup {c}]
    /\ UNCHANGED clients

\* Lines 53-58: the first look at the map, then RUnlock.
CheckCache(c) ==
    /\ cm.pc[c] = "check"
    /\ cm' = IF Exists(cm.slot, Key(cm.pair[c]))
             THEN [Step(c, "done", cm.slot[Key(cm.pair[c])], FALSE)
                      EXCEPT !.readers = @ \ {c}]
             ELSE [Step(c, "lock", 0, TRUE) EXCEPT !.readers = @ \ {c}]
    /\ UNCHANGED clients

\* cm.mutex.Lock(): it waits for the writer and for every reader to leave.
Lock(c) ==
    /\ cm.pc[c] = "lock"
    /\ cm.writer = 0
    /\ cm.readers = {}
    /\ cm' = [Step(c, "recheck", 0, TRUE) EXCEPT !.writer = c]
    /\ UNCHANGED clients

\* Lines 64-82 with the deferred Unlock: the second look at the map, and if
\* the key is still missing createClient, which fails or constructs a Client
\* that is stored under the key.
CreateClient(c) ==
    /\ cm.pc[c] = "recheck"
    /\ LET key == Key(cm.pair[c])
       IN  IF DoubleCheck(cm.slot, key)
           THEN /\ cm' = [Step(c, "done", cm.slot[key], TRUE)
                             EXCEPT !.writer = 0]
                /\ UNCHANGED clients
           ELSE \/ /\ cm' = [Step(c, "done", -1, TRUE) EXCEPT !.writer = 0]
                   /\ UNCHANGED clients
                \/ \E accountID \in AccountIDs(cm.pair[c][1]) :
                      /\ cm' = [Step(c, "done", Len(cm.made) + 1, TRUE)
                                   EXCEPT !.writer = 0,
                                          !.made = Append(@,
                                              [key |-> key,
                                               account |-> accountID]),
                                          !.slot =
                                              [k \in DOMAIN @ \cup {key} |->
                                                  IF k = key
                                                  THEN Len(cm.made) + 1
                                                  ELSE @[k]]]
                      /\ clients' = [k \in DOMAIN clients \cup {key} |->
                                        IF k = key THEN accountID
                                        ELSE clients[k]]

(***************************************************************************)
(* SpecClient: goroutines call GetClient on one ClientManager, again and   *)
(* again, for two pairs.                                                   *)
(***************************************************************************)
clientFrame == <<storeVars, regionRows, profileRows, ceiling, ctxDone, mpc,
                 upc, outcome, cur, waiters, errorChan, chanCap, errors,
                 result, evictRuns, firstRun>>

NextClient ==
    \/ \E c \in Callers, u \in ClientPairs :
          CallGetClient(c, u) /\ UNCHANGED clientFrame
    \/ \E c \in Callers : RLock(c) /\ UNCHANGED clientFrame
    \/ \E c \in Callers : CheckCache(c) /\ UNCHANGED clientFrame
    \/ \E c \in Callers : Lock(c) /\ UNCHANGED clientFrame
    \/ \E c \in Callers : CreateClient(c) /\ UNCHANGED clientFrame

SpecClient == RepositoryInit /\ [][NextClient]_vars

\* The handles constructed for a key.
MadeFor(key) == {i \in DOMAIN cm.made : cm.made[i].key = key}

\* C31 (memoized clients): for any interleaving of GetClient calls on one
\* ClientManager, at most one handle is ever constructed for a pair, it is
\* the one the map holds, and every caller whose call for the pair has
\* succeeded received that handle, a later caller included.
C31_ClientMemoized ==
    /\ \A u \in ClientPairs : Cardinality(MadeFor(Key(u))) <= 1
    /\ \A u \in ClientPairs :
          MadeFor(Key(u)) # {}
             => /\ Key(u) \in DOMAIN cm.slot
                /\ cm.slot[Key(u)] \in MadeFor(Key(u))
                /\ clients[Key(u)] = cm.made[cm.slot[Key(u)]].account
    /\ \A c \in Callers :
          (cm.pc[c] = "done" /\ cm.got[c] > 0)
             => MadeFor(Key(cm.pair[c])) = {cm.got[c]}

\* Two callers missed the same pair in the first check, both went for the
\* write lock, and both have returned the one handle.
C31_Witness ==
    /\ cm.pc[1] = "done" /\ cm.pc[2] = "done"
    /\ cm.pair[1] = cm.pair[2]
    /\ cm.slow[1] /\ cm.slow[2]
    /\ cm.got[1] > 0 /\ cm.got[1] = cm.got[2]


(***************************************************************************)
(* Claims about the exact match of FindByName, under SpecResolve.          *)
(***************************************************************************)
\* The stored records named exactly as asked.
ExactlyNamed == {r \in instances : r.name = last.arg}

\* The stored records the name with its suffix stripped would match.
StrippedNamed ==
    {r \in instances : HasFallback(last.arg) /\ r.name = Base(last.arg)}

\* C32 (exact match first): when a stored record has exactly the queried
\* name, a FindByName that returns without error returns a record of
\* exactly that name, whatever the rank of the records the stripped name
\* would match; a record of the stripped name is returned only when no
\* record has the queried name.
C32_ExactMatchFirst ==
    (last.op = "FindByName" /\ ~last.err) =>
        /\ ExactlyNamed # {}
              => last.res # None /\ last.res[1].row \in ExactlyNamed
        /\ (last.res # None /\ last.res[1].row.name # last.arg)
              => ExactlyNamed = {} /\ last.res[1].row \in StrippedNamed

\* "d.x" was asked for; the record of that name was returned though its rank
\* is the lowest and a record named "d" is Online.
C32_Witness ==
    /\ last.op = "FindByName" /\ ~last.err /\ last.arg = DbX
    /\ last.res # None
    /\ last.res[1].row.name = DbX
    /\ Rank(last.res[1].row.state) = 2
    /\ \E r \in StrippedNamed : Rank(r.state) = 0


(***************************************************************************)
(* SpecLive: DiscoverInstances on a service whose ceiling is one, the      *)
(* smallest that admits a unit, so that every unit but one has to wait;    *)
(* every goroutine is scheduled again and again and every remote call and  *)
(* store operation returns.                                                *)
(***************************************************************************)
LiveInit ==
    /\ StoreInit
    /\ ServiceInit(1)
    /\ firstRun = << >>
    /\ cm = NoCalls

\* The next step of the goroutine of unit u.
UnitStep(u) ==
    /\ u \in DOMAIN upc
    /\ \/ Acquire(u)
       \/ AcquireCancelled(u)
       \/ AcquireGranted(u)
       \/ DiscoverEC2(u)
       \/ DiscoverSSM(u)
       \/ Finish(u)
    /\ UNCHANGED <<firstRun, cm>>

\* The next step of DiscoverInstances after it has started its goroutines.
CallStep ==
    /\ Collect \/ CleanupStaleInstances \/ Return
    /\ UNCHANGED <<firstRun, cm>>

\* The steps of SpecDiscover, the clock standing still.
NextLive ==
    \/ /\ \E profiles \in ProfileLists, regions \in RegionLists :
             DiscoverInstances(profiles, regions)
       /\ UNCHANGED <<firstRun, cm>>
    \/ \E u \in AllUnits : UnitStep(u)
    \/ CallStep
    \/ Cancel /\ UNCHANGED <<firstRun, cm>>

SpecLive ==
    /\ LiveInit
    /\ [][NextLive]_vars
    /\ \A u \in AllUnits : WF_vars(UnitStep(u))
    /\ WF_vars(CallStep)

\* Every unit of the call has finished, having held a slot or failed.
AllFinished ==
    \A u \in DOMAIN upc : upc[u] = "done" /\ outcome[u].err # "none"

\* C33 (termination): with a ceiling of at least one, a DiscoverInstances
\* call that has started its units eventually returns, every one of its
\* units having by then got a slot or failed, and finished: no unit waits
\* for a slot forever, also when there are more units than slots.
C33_Termination == (mpc = "wait") ~> (mpc = "returned" /\ AllFinished)

\* A ceiling of one, one unit at work with the slot and another queued.
C33_Witness ==
    /\ ceiling = 1
    /\ ~ctxDone
    /\ \E u, v \in DOMAIN upc :
          /\ upc[u] \in {"running", "ec2saved"}
          /\ upc[v] = "waiting"
          /\ waiters = <<v>>


(***************************************************************************)
(* SpecStuck: DiscoverInstances on a service built from a configured       *)
(* max_concurrent_sessions of zero or less, which nothing validates.       *)
(***************************************************************************)
StuckCeilings == {-1, 0}

StuckInit ==
    /\ StoreInit
    /\ \E size \in StuckCeilings : ServiceInit(size)
    /\ firstRun = << >>
    /\ cm = NoCalls

SpecStuck == StuckInit /\ [][NextLive]_vars

\* C34 (ceiling of zero or less): the service is built with such a ceiling
\* as configured; as long as the caller's context is not cancelled no unit
\* gets a slot, none gets past the gate, and a DiscoverInstances call that
\* has a unit has not returned.
C34_NoSlotNoReturn ==
    (ceiling <= 0 /\ ~ctxDone) =>
        /\ cur = 0
        /\ \A u \in DOMAIN upc : upc[u] \in {"start", "waiting"}
        /\ (mpc # "idle" /\ DOMAIN upc # {}) => mpc = "wait"

\* With a ceiling of -1 and no cancellation, both units of a call are
\* blocked in Acquire and the call waits for them.
C34_Witness ==
    /\ ceiling = -1
    /\ ~ctxDone
    /\ mpc = "wait"
    /\ Cardinality(DOMAIN upc) = 2
    /\ \A u \in DOMAIN upc : upc[u] = "waiting"


(***************************************************************************)
(* Claims about the accounting of slots, under SpecDiscover.               *)
(***************************************************************************)
\* C35 (slot accounting): the weight the gate holds is at every moment the
\* number of units that were given a slot and have not released it, so that
\* a unit releases once and only what it acquired, on success and on every
\* failure path; it lies between 0 and the ceiling; and once
\* DiscoverInstances has stopped waiting for its units, and so when it has
\* returned, no slot is held and nobody is queued.
C35_SlotAccounting ==
    /\ cur = Cardinality(Holding)
    /\ 0 <= cur /\ cur <= ceiling
    /\ \A i \in DOMAIN waiters : upc[waiters[i]] = "waiting"
    /\ mpc \in {"collected", "cleaned", "returned"}
          => cur = 0 /\ waiters = << >>

\* The call has returned with a ceiling of one, a unit having failed in its
\* remote call and a unit having succeeded: no slot is held.
C35_Witness ==
    /\ mpc = "returned"
    /\ cur = 0
    /\ ceiling = 1
    /\ \E u, v \in DOMAIN upc :
          /\ outcome[u].err \in RemoteErrors
          /\ outcome[v].err = "ok"


(***************************************************************************)
(* Claims about the eviction that ends a run, under SpecConverge.          *)
(***************************************************************************)
\* The step is the eviction of the call, and the store carried it out.
EvictionStep ==
    /\ mpc = "collected" /\ mpc' = "cleaned"
    /\ last'.op = "DeleteStale" /\ ~last'.fault

\* The eviction deleted exactly the records last seen before now - ttl,
\* whatever their pair and the outcome of its unit.
EvictsEveryStaleRecord ==
    instances' = {r \in instances : ~(r.last_seen < now - last'.arg)}

\* The stored records of the units that succeeded in this run.
UpsertedInRun ==
    {r \in instances : \E u \in Succeeded : RowKey(r) \in Expected(u)}

\* C36 as stated (global eviction): the eviction at the end of
\* DiscoverInstances deletes every record whose last_seen is older than the
\* TTL, also of pairs outside the run's matrix and of pairs whose unit
\* failed, and retains the records upserted in this run.
C36_RunRecordsRetained ==
    [][EvictionStep
          => /\ EvictsEveryStaleRecord
             /\ UpsertedInRun \subseteq instances']_vars

\* C36 as amended: the same, the records upserted in this run being retained
\* when the TTL is not shorter than the time that has passed since the run
\* began, and otherwise only those not last seen before now - ttl.
C36_GlobalEviction ==
    [][EvictionStep
          => /\ EvictsEveryStaleRecord
             /\ last'.arg >= now => UpsertedInRun \subseteq instances'
             /\ \A r \in UpsertedInRun :
                   r \in instances' \/ r.last_seen < now - last'.arg]_vars

\* The eviction of a run deleted a record of a pair that was not in the
\* run's matrix and kept a record of a unit of the run.
C36_Witness ==
    /\ mpc = "cleaned"
    /\ last.op = "DeleteStale" /\ ~last.fault
    /\ \E r \in last.res : <<r.profile, r.region>> \notin DOMAIN upc
    /\ \E r \in instances, u \in Succeeded : RowKey(r) \in Expected(u)


(***************************************************************************)
(* Claims about a call without units, under SpecSchedule.                  *)
(***************************************************************************)
\* The call that is running has no unit, and it did find its regions.
EmptyMatrix ==
    /\ mpc # "idle"
    /\ DOMAIN upc = {}
    /\ result.kind # "regions"

\* C37 (empty matrix): a DiscoverInstances call with no scope, or with no
\* region given and no region enabled, schedules no unit; a call without
\* units creates no remote client, so makes no remote call, upserts
\* nothing, and by its return has run the stale eviction once and returns
\* success.
C37_EmptyMatrix ==
    [][/\ \A profiles \in ProfileLists, regions \in RegionLists :
             (/\ DiscoverInstances(profiles, regions)
              /\ mpc' = "wait"
              /\ profiles = << >> \/ (regions = << >> /\ EnabledNow = {}))
                => DOMAIN upc' = {}
       /\ EmptyMatrix
             => /\ clients' = clients
                /\ instances' \subseteq instances
                /\ tags' = tags /\ nextID' = nextID
                /\ last'.op # "SaveOrUpdateBatch"
                /\ evictRuns' <= 1
                /\ mpc' = "returned"
                      => result'.kind = "ok" /\ evictRuns' = 1]_vars

\* A call made while no region was enabled has returned success after one
\* eviction, without a unit.
C37_Witness ==
    /\ mpc = "returned"
    /\ DOMAIN upc = {}
    /\ EnabledNow = {}
    /\ result.kind = "ok"
    /\ evictRuns = 1
    /\ last.op = "DeleteStale"


(***************************************************************************)
(* Claims about the order of the units' transactions and the frame of an   *)
(* upsert, under SpecUpsert.                                               *)
(***************************************************************************)
\* A record without its timestamps and its surrogate key.
Fields(r) ==
    [instance_id |-> r.instance_id, name |-> r.name, region |-> r.region,
     profile |-> r.profile, account_id |-> r.account_id, state |-> r.state,
     platform |-> r.platform]

\* What a caller sees of a store: its records and its tags.
Content(db) ==
    [rows |-> {Fields(r) : r \in db.instances}, tags |-> db.tags]

\* The store after the transactions of two units, of batches a and b, have
\* run one after the other.
OneThenOther(a, b) ==
    UpsertBatch(UpsertBatch(DB, a, now, now), b, now, now)

PairOf(inst) == <<inst.profile, inst.region>>

\* C38 (interleaving independence): the batches of the units of different
\* (scope, region) pairs being written in transactions that do not
\* interleave, the records (without timestamps) and the tags they leave in
\* the store are the same whichever unit's transaction runs first.
C38_InterleavingIndependent ==
    \A a, b \in UpsertPool :
        PairOf(a) # PairOf(b)
           => Content(OneThenOther(Seq1(a), Seq1(b)))
                 = Content(OneThenOther(Seq1(b), Seq1(a)))

\* The record of another key and the tags read with it are as before.
Untouched(r) ==
    /\ r \in instances'
    /\ TagsOf(tags', r.instance_id) = TagsOf(tags, r.instance_id)

GetEnabledProfiles == {r.profile : r \in {x \in profileRows : x.enabled}}

RegionRowsOf(rows, name) == {x \in rows : x.region = name}

ProfileRowsOf(rows, name) == {x \in rows : x.profile = name}

\* The rows of every name but one are the same in two tables.
SameButRegion(rows, after, name) ==
    \A x \in rows \cup after :
        x.region # name => (x \in rows <=> x \in after)

SameButProfile(rows, after, name) ==
    \A x \in rows \cup after :
        x.profile # name => (x \in rows <=> x \in after)

\* C40 (enable and disable): a table never holds two rows of one name.  A
\* successful enable of a name adds the name to the enabled set, creating
\* its row when there is none and changing nothing when it was enabled; a
\* successful disable of a name takes the name out of the enabled set and
\* creates no row for a name without one; neither changes the row of
\* another name or the other table.  So the enabled set is the names whose
\* latest operation was an enable and the enabled names never operated on.
C40_EnableDisable ==
    [][/\ \A name \in RegionNames :
             Cardinality(RegionRowsOf(regionRows', name)) <= 1
       /\ \A name \in ProfileNames :
             Cardinality(ProfileRowsOf(profileRows', name)) <= 1
       /\ (last'.op = "EnableRegion" /\ ~last'.err)
             => /\ GetEnabledRegions' = GetEnabledRegions \cup {last'.arg}
                /\ RegionRowsOf(regionRows', last'.arg)
                      = {Region(last'.arg, TRUE)}
                /\ SameButRegion(regionRows, regionRows', last'.arg)
                /\ Region(last'.arg, TRUE) \in regionRows
                      => regionRows' = regionRows
                /\ UNCHANGED profileRows
       /\ (last'.op = "DisableRegion" /\ ~last'.err)
             => /\ GetEnabledRegions' = GetEnabledRegions \ {last'.arg}
                /\ RegionRowsOf(regionRows, last'.arg) = {}
                      => RegionRowsOf(regionRows', last'.arg) = {}
                /\ SameButRegion(regionRows, regionRows', last'.arg)
                /\ UNCHANGED profileRows
       /\ (last'.op = "EnableProfile" /\ ~last'.err)
             => /\ GetEnabledProfiles' = GetEnabledProfiles \cup {last'.arg}
                /\ ProfileRowsOf(profileRows', last'.arg)
                      = {Profile(last'.arg, TRUE)}
                /\ SameButProfile(profileRows, profileRows', last'.arg)
                /\ Profile(last'.arg, TRUE) \in profileRows
                      => profileRows' = profileRows
                /\ UNCHANGED regionRows
       /\ (last'.op = "DisableProfile" /\ ~last'.err)
             => /\ GetEnabledProfiles' = GetEnabledProfiles \ {last'.arg}
                /\ ProfileRowsOf(profileRows, last'.arg) = {}
                      => ProfileRowsOf(profileRows', last'.arg) = {}
                /\ SameButProfile(profileRows, profileRows', last'.arg)
                /\ UNCHANGED regionRows]_vars

\* Region r1, which has no row, was disabled and still has none, in a store
\* where r2 was enabled and profile p2 was enabled and then disabled.
C40_Witness ==
    /\ last.op = "DisableRegion"
    /\ ~last.err
    /\ last.arg = "r1"
    /\ regionRows = {Region("r2", TRUE)}
    /\ profileRows = {Profile("p1", TRUE), Profile("p2", FALSE)}

====
